---- MODULE Spec2Model ----
(***************************************************************************)
(* Verification model of the gno.mod manifest engine:                      *)
(*   gnovm/pkg/gnomod/read.go  (lexer, parser, comment assignment,         *)
(*                              addLine / addReplace, mod why)             *)
(*   gnovm/pkg/load/load.go    (IsGnoFile and the directory walks)         *)
(* Strings that the code only compares are TLA+ strings; byte buffers the  *)
(* lexer scans are sequences of one-character strings.                     *)
(***************************************************************************)
EXTENDS Integers, Sequences, FiniteSets, TLC

VARIABLES
    \* ---- manifest editor (addReplace / addLine) ----
    syntax,      \* *modfile.FileSyntax: [Stmt |-> sequence of statements]
    heap,        \* the *modfile.Line objects, indexed by their address
    replace,     \* []*modfile.Replace
    ret,         \* what the last addReplace call returned ("none" before any call)
    preState,    \* syntax, heap and replace as they were before the last call
    lastArgs,    \* arguments of the last addReplace call
    repeated,    \* whether the call before it had the same arguments
    ncalls,      \* number of addReplace calls made
    initDistinct, \* whether the initial live entries had pairwise distinct Old
    \* ---- import extraction and mod why ----
    dir,         \* the package directory: its entries as os.ReadDir lists them
    pkgImports,  \* [called, imports]: the result of GetGnoPackageImports(dir)
    whyArgs,     \* the package arguments of gno mod why
    whyOut,      \* [err, out]: the result of the mod why run, err "none" before it
    whyMap,      \* [err, m]: what getImportToFilesMap returned in that run
    \* ---- recursive file collection (load.go) ----
    fs,          \* the file system: [root, tree, unreadable]
    walk,        \* filepath.WalkDir under way: [pending, err]
    visited,     \* walkDirForGnoDirs: the directories already reported
    walkLog,     \* one record per call of walkFn: [path, added]
    paths,       \* GnoFilesFromArgsRecursively: the files collected so far
    filesRet,    \* [done, paths, err]: what GnoFilesFromArgsRecursively returned
    \* ---- gno mod download ----
    gnoMod,      \* the manifest: [Replace |-> sequence of [Old, New]]
    gnoFiles,    \* the source files: [ok, imports], ok false when ParseFile fails
    fetchFails,  \* the paths on which the fetch collaborator returns an error
    at,          \* the loops of execModDownload: [f, i], i = 0 before ParseFile
    fetched,     \* one record per call of the fetch collaborator: [imp, path]
    dlRet,       \* what execModDownload returned, [kind |-> "none"] before
    \* ---- parser ----
    data,        \* the bytes handed to parse
    parsed,      \* [done, f, err, lexed]: what parse(data) returned, once it has
    lexer,       \* the input of a lexer that is driven call by call
    lexOp,       \* the last call on lexer: "none", "readRune" or "readToken"
    lexPrev,     \* [off, kind]: the offset and the token kind before that call
    replArgs,    \* the argument list handed to parseReplace
    replRet      \* [done, entry, err]: what parseReplace returned, once it has

editVars == <<syntax, heap, replace, ret, preState, lastArgs, repeated, ncalls, initDistinct>>

loadVars == <<dir, pkgImports, whyArgs, whyOut, whyMap>>

walkVars == <<fs, walk, visited, walkLog, paths, filesRet>>

downloadVars == <<gnoMod, gnoFiles, fetchFails, at, fetched, dlRet>>

parseVars == <<data, parsed, lexer, lexOp, lexPrev, replArgs, replRet>>

vars == <<syntax, heap, replace, ret, preState, lastArgs, repeated, ncalls, initDistinct,
          dir, pkgImports, whyArgs, whyOut, whyMap,
          fs, walk, visited, walkLog, paths, filesRet,
          gnoMod, gnoFiles, fetchFails, at, fetched, dlRet, data, parsed, lexer, lexOp, lexPrev, replArgs, replRet>>

\* ------------------------------------------------------------------------
\* Generic helpers
\* ------------------------------------------------------------------------
Last(s) == s[Len(s)]

Front(s) == SubSeq(s, 1, Len(s) - 1)

InsertAt(s, k, e) == SubSeq(s, 1, k - 1) \o <<e>> \o SubSeq(s, k, Len(s))

NoArgs == [none |-> TRUE]

\* ------------------------------------------------------------------------
\* Lexer: runes, positions, tokens
\* ------------------------------------------------------------------------
\* An input is the record
\*   [filename, complete, off, tokenStart, token, pos, comments, parseErrors, file,
\*    panicking, lexed]
\* complete is the whole input, a sequence of bytes; remaining is
\* complete[off+1 ..] and tokenStart is kept as an offset in the same way;
\* panicking tells that Error has panicked and the stack is unwinding towards
\* the recover of parse; lexed is the history of the token kinds produced.
NUL == "NUL"

RuneError == "U+FFFD"

\* the two bytes of the UTF-8 encoding of U+00E9
LeadByte == "0xC3"

ContByte == "0xA9"

EAcute == "U+00E9"

\* the byte 0x60, the quote of raw strings
Backquote == "0x60"

PosStart == [Line |-> 1, LineRune |-> 1, Byte |-> 0]

\* modfile.Position{}, modfile.Comment{}
ZeroPos == [Line |-> 0, LineRune |-> 0, Byte |-> 0]

ZeroComment == [Start |-> ZeroPos, Token |-> <<>>, Suffix |-> FALSE]

NoToken == [kind |-> "none", pos |-> ZeroPos, endPos |-> ZeroPos, text |-> <<>>]

NoFile == [nil |-> TRUE, Stmt |-> <<>>, Before |-> <<>>, Suffix |-> <<>>, After |-> <<>>]

Filename == "gno.mod"

newInput(bytes) ==
    [filename |-> Filename, complete |-> bytes, off |-> 0, tokenStart |-> 0, token |-> NoToken,
     pos |-> PosStart, comments |-> <<>>, parseErrors |-> <<>>, file |-> NoFile,
     panicking |-> FALSE, lexed |-> <<>>]

\* Error panicking without a record of the error
Error_NoRecord(in, s) == [in EXCEPT !.panicking = TRUE]

\* Error appends to parseErrors and panics
Error(in, s) ==
    [in EXCEPT !.parseErrors = Append(@, [Filename |-> in.filename, Pos |-> in.pos, Err |-> s]),
               !.panicking = TRUE]

eof(in) == in.off >= Len(in.complete)

\* utf8.DecodeRune(in.remaining): the rune and its width in bytes
DecodeRune(in) ==
    LET b == in.complete[in.off + 1] IN
    IF b = LeadByte
      THEN IF in.off + 2 <= Len(in.complete) /\ in.complete[in.off + 2] = ContByte
             THEN [r |-> EAcute, size |-> 2]
             ELSE [r |-> RuneError, size |-> 1]
    ELSE IF b = ContByte THEN [r |-> RuneError, size |-> 1]
    ELSE [r |-> b, size |-> 1]

peekRune(in) == IF eof(in) THEN NUL ELSE DecodeRune(in).r

peekPrefix(in, prefix) ==
    \A i \in 1..Len(prefix) :
        in.off + i <= Len(in.complete) /\ in.complete[in.off + i] = prefix[i]

\* readRune counting one byte for every rune
readRune_OneByte(in) ==
    IF eof(in) THEN Error(in, "internal lexer error: readRune at EOF")
    ELSE [in EXCEPT !.off = @ + DecodeRune(in).size,
                    !.pos = IF DecodeRune(in).r = "\n"
                              THEN [Line |-> @.Line + 1, LineRune |-> 1, Byte |-> @.Byte + 1]
                              ELSE [Line |-> @.Line, LineRune |-> @.LineRune + 1, Byte |-> @.Byte + 1]]

\* readRune with the line counter left alone
readRune_NoLineCount(in) ==
    IF eof(in) THEN Error(in, "internal lexer error: readRune at EOF")
    ELSE [in EXCEPT !.off = @ + DecodeRune(in).size,
                    !.pos = [Line |-> @.Line, LineRune |-> @.LineRune + 1,
                             Byte |-> @.Byte + DecodeRune(in).size]]

readRune(in) ==
    IF eof(in) THEN Error(in, "internal lexer error: readRune at EOF")
    ELSE LET d == DecodeRune(in) IN
         [in EXCEPT !.off = @ + d.size,
                    !.pos = IF d.r = "\n"
                              THEN [Line |-> @.Line + 1, LineRune |-> 1, Byte |-> @.Byte + d.size]
                              ELSE [Line |-> @.Line, LineRune |-> @.LineRune + 1, Byte |-> @.Byte + d.size]]

isComment(k) == k \in {"COMMENT", "EOLCOMMENT"}

isEOL(k) == k \in {"EOF", "EOLCOMMENT", "\n"}

startToken(in) ==
    [in EXCEPT !.tokenStart = in.off,
               !.token = [@ EXCEPT !.text = <<>>, !.pos = in.pos]]

\* endToken: a single trailing newline (LF or CRLF) is removed from comments
endToken(in, kind) ==
    LET text == SubSeq(in.complete, in.tokenStart + 1, in.off)
        n == Len(text)
        trimmed == IF ~isComment(kind) THEN text
                   ELSE IF n >= 2 /\ text[n - 1] = "\r" /\ text[n] = "\n" THEN SubSeq(text, 1, n - 2)
                   ELSE IF n >= 1 /\ text[n] = "\n" THEN SubSeq(text, 1, n - 1)
                   ELSE text
    IN [in EXCEPT !.token = [kind |-> kind, pos |-> in.token.pos, endPos |-> in.pos, text |-> trimmed],
                  !.lexed = Append(@, kind)]

peek(in) == in.token.kind

\* unicode.IsSpace and the complement of unicode.IsPrint, on the runes used
SpaceRunes == {" ", "\t", "\n", "\r", "\f"}

ControlRunes == {NUL, "BEL"}

isIdent(c) ==
    /\ c \notin {" ", "(", ")", "[", "]", "{", "}", ","}
    /\ c \notin SpaceRunes
    /\ c \notin ControlRunes

\* lines 231-234: is anything but space between the last newline and pos.Byte
RECURSIVE onlySpaceBefore(_, _)
onlySpaceBefore(complete, k) ==
    IF k < 1 THEN TRUE
    ELSE IF complete[k] = "\n" THEN TRUE
    ELSE IF complete[k] \in SpaceRunes THEN onlySpaceBefore(complete, k - 1)
    ELSE FALSE

\* line 239: consume the comment up to and including the newline
RECURSIVE consumeComment(_)
consumeComment(in) ==
    IF eof(in) THEN in
    ELSE LET c == peekRune(in) IN
         IF c = "\n" THEN readRune(in) ELSE consumeComment(readRune(in))

\* lines 245-253: the comment token is ended; a suffix comment is saved
saveComment(in) ==
    [in EXCEPT !.comments =
        Append(@, [Start |-> in.token.pos, Token |-> in.token.text, Suffix |-> TRUE])]

endComment(in, suffix) ==
    IF ~suffix THEN endToken(in, "COMMENT") ELSE saveComment(endToken(in, "EOLCOMMENT"))

\* lines 228-254 taking every comment for a suffix comment
commentToken_AlwaysSuffix(in) ==
    endComment(consumeComment(readRune(readRune(in))), TRUE)

\* lines 228-254, from the token start on
commentToken(in) ==
    endComment(consumeComment(readRune(readRune(in))), ~onlySpaceBefore(in.complete, in.pos.Byte))

\* lines 227-254
readComment(in) == commentToken(startToken(in))

\* lines 291-301: the rune c has been read from the string, in is what follows
stringRune(in, c, quote) ==
    IF c = quote THEN [in |-> in, done |-> TRUE]
    ELSE IF c = "\\" /\ quote # Backquote
      THEN [in |-> IF eof(in) THEN Error([in EXCEPT !.pos = in.token.pos], "unexpected EOF in string")
                   ELSE readRune(in),
            done |-> FALSE]
    ELSE [in |-> in, done |-> FALSE]

\* lines 284-301 without line 285, the return to the start of the string
stringStep_PosKept(in, quote) ==
    IF eof(in) THEN [in |-> Error(in, "unexpected EOF in string"), done |-> FALSE]
    ELSE IF peekRune(in) = "\n"
      THEN [in |-> Error(in, "unexpected newline in string"), done |-> FALSE]
    ELSE stringRune(readRune(in), peekRune(in), quote)

\* lines 284-301: one turn of the loop over the body of a quoted string
stringStep(in, quote) ==
    IF eof(in)
      THEN [in |-> Error([in EXCEPT !.pos = in.token.pos], "unexpected EOF in string"), done |-> FALSE]
    ELSE IF peekRune(in) = "\n"
      THEN [in |-> Error(in, "unexpected newline in string"), done |-> FALSE]
    ELSE stringRune(readRune(in), peekRune(in), quote)

\* lines 283-302: the body of a quoted string, after its opening quote
RECURSIVE scanString(_, _)
scanString(st, quote) ==
    IF st.done \/ st.in.panicking THEN st.in ELSE scanString(stringStep(st.in, quote), quote)

\* lines 313-321
RECURSIVE scanIdent(_)
scanIdent(in) ==
    IF ~isIdent(peekRune(in)) THEN in
    ELSE IF peekPrefix(in, <<"/", "/">>) THEN in
    ELSE IF peekPrefix(in, <<"/", "*">>)
      THEN Error(in, "mod files must use // comments (not /* */ comments)")
    ELSE scanIdent(readRune(in))

\* lines 303 and 322: the token is ended unless the scan has panicked
endUnlessPanicking(in, kind) == IF in.panicking THEN in ELSE endToken(in, kind)

\* lines 267-322, from the token start on (the message of line 309 goes on
\* with the character)
tokenAt(in, c) ==
    IF eof(in) THEN endToken(in, "EOF")
    ELSE IF c \in {"\n", "(", ")", "[", "]", "{", "}", ","} THEN endToken(readRune(in), c)
    ELSE IF c \in {"\"", Backquote}
      THEN endUnlessPanicking(scanString([in |-> readRune(in), done |-> FALSE], c), "STRING")
    ELSE IF ~isIdent(c) THEN Error(in, "unexpected input character")
    ELSE endUnlessPanicking(scanIdent(in), "IDENT")

\* lines 264-322: the token that begins at a non-space, non-comment position
readTokenBody(in) == tokenAt(startToken(in), peekRune(in))

\* lines 219-224: skip past spaces, stopping at non-space or EOF
RECURSIVE skipSpaces(_)
skipSpaces(in) ==
    IF eof(in) THEN in
    ELSE IF peekRune(in) \in {" ", "\t", "\r"} THEN skipSpaces(readRune(in))
    ELSE in

\* lines 226-322, at the first rune that is not a space
tokenAfterSpaces(in) ==
    IF eof(in) THEN readTokenBody(in)
    ELSE IF peekPrefix(in, <<"/", "/">>) THEN readComment(in)
    ELSE IF peekPrefix(in, <<"/", "*">>)
      THEN Error(in, "mod files must use // comments (not /* */ comments)")
    ELSE readTokenBody(in)

\* readToken lexes the next token and stores it in in.token
readToken(in) == tokenAfterSpaces(skipSpaces(in))

\* lex reading two tokens for the one it hands over
lex_Twice(in) == readToken(readToken(in))

\* lex: the caller takes in.token as the token and goes on with this input
lex(in) == readToken(in)

\* ------------------------------------------------------------------------
\* Parser: the syntax tree
\* ------------------------------------------------------------------------
\* Every node carries its Comments as the fields Before and Suffix.
NewFileSyntax == [nil |-> FALSE, Stmt |-> <<>>, Before |-> <<>>, Suffix |-> <<>>, After |-> <<>>]

MkLine(start, tokens, end, inBlock) ==
    [type |-> "Line", Start |-> start, End |-> end, Token |-> tokens, InBlock |-> inBlock,
     Before |-> <<>>, Suffix |-> <<>>]

MkParen(pos) == [Pos |-> pos, Before |-> <<>>, Suffix |-> <<>>]

MkLineBlock(start, tokens, lparenPos, rparenPos) ==
    [type |-> "LineBlock", Start |-> start, Token |-> tokens,
     LParen |-> MkParen(lparenPos), Line |-> <<>>, RParen |-> MkParen(rparenPos),
     Before |-> <<>>, Suffix |-> <<>>]

MkCommentBlock(start, before) ==
    [type |-> "CommentBlock", Start |-> start, Before |-> before, Suffix |-> <<>>]

\* the parser's variable cb: nil, or the comment block being gathered
NilCB == [nil |-> TRUE, Start |-> ZeroPos, Before |-> <<>>]

appendStmt(in, stmt) == [in EXCEPT !.file.Stmt = Append(@, stmt)]

\* ------------------------------------------------------------------------
\* parseLine
\* ------------------------------------------------------------------------
\* A loop of the parser runs on a record of its local variables with the
\* input in and the flag done, set by the turn that returns.

\* lines 611-621: tok is the token taken, in what lex left
lineToken(st, tok, in) ==
    IF in.panicking THEN [st EXCEPT !.in = in]
    ELSE IF isEOL(tok.kind) THEN [st EXCEPT !.in = in, !.done = TRUE]
    ELSE [st EXCEPT !.in = in, !.tokens = Append(@, tok.text), !.end = tok.endPos]

\* the loop of lines 610-622
RECURSIVE parseLineLoop(_)
parseLineLoop(st) ==
    IF st.done \/ st.in.panicking THEN st
    ELSE parseLineLoop(lineToken(st, st.in.token, lex(st.in)))

\* the *modfile.Line of lines 613-618
lineOf(st) == [in |-> st.in, line |-> MkLine(st.start, st.tokens, st.end, TRUE)]

\* lines 603-609: tok is the first token, in what lex left
lineFirst(tok, in) ==
    IF in.panicking THEN [in |-> in, start |-> tok.pos, end |-> tok.endPos, tokens |-> <<>>, done |-> FALSE]
    ELSE IF isEOL(tok.kind)
      THEN [in |-> Error(in, "internal parse error: parseLine at end of line"),
            start |-> tok.pos, end |-> tok.endPos, tokens |-> <<>>, done |-> FALSE]
    ELSE [in |-> in, start |-> tok.pos, end |-> tok.endPos, tokens |-> <<tok.text>>, done |-> FALSE]

\* parseLine; yields the input and the line
parseLine(in) == lineOf(parseLineLoop(lineFirst(in.token, lex(in))))

\* ------------------------------------------------------------------------
\* parseLineBlock
\* ------------------------------------------------------------------------
\* line 576 recording a placeholder for every blank line
keepBlankLine_Always(comments, x) == TRUE

\* the condition of line 576: does this blank line get a placeholder comment
keepBlankLine(comments, x) ==
    \/ Len(comments) = 0 /\ Len(x.Line) > 0
    \/ Len(comments) > 0 /\ comments[Len(comments)].Token # <<>>

\* lines 586-593: rparen is the token taken, in what lex left
blockClose(st, rparen, in) ==
    IF in.panicking THEN [st EXCEPT !.in = in]
    ELSE IF ~isEOL(peek(in))
      THEN [st EXCEPT !.in = Error(in, "syntax error (expected newline after closing paren)"),
                      !.x.RParen.Before = st.comments, !.x.RParen.Pos = rparen.pos]
    ELSE [st EXCEPT !.in = lex(in), !.done = TRUE,
                    !.x.RParen.Before = st.comments, !.x.RParen.Pos = rparen.pos]

\* lines 595-598: r is what parseLine yielded
blockLine(st, r) ==
    IF r.in.panicking THEN [st EXCEPT !.in = r.in]
    ELSE [st EXCEPT !.in = r.in, !.comments = <<>>,
                    !.x.Line = Append(@, [r.line EXCEPT !.Before = st.comments])]

\* lines 569-598: one turn of the loop (the message of line 584 goes on with
\* the file name and x.Start)
blockStep(st) ==
    CASE peek(st.in) = "EOLCOMMENT" -> [st EXCEPT !.in = lex(st.in)]
      [] peek(st.in) = "\n" ->
            [st EXCEPT !.in = lex(st.in),
                       !.comments = IF keepBlankLine(st.comments, st.x)
                                      THEN Append(@, ZeroComment) ELSE @]
      [] peek(st.in) = "COMMENT" ->
            [st EXCEPT !.in = lex(st.in),
                       !.comments = Append(@, [Start |-> st.in.token.pos,
                                               Token |-> st.in.token.text, Suffix |-> FALSE])]
      [] peek(st.in) = "EOF" ->
            [st EXCEPT !.in = Error(st.in, "syntax error (unterminated block)")]
      [] peek(st.in) = ")" -> blockClose(st, st.in.token, lex(st.in))
      [] OTHER -> blockLine(st, parseLine(st.in))

\* the loop of lines 568-599
RECURSIVE parseLineBlockLoop(_)
parseLineBlockLoop(st) ==
    IF st.done \/ st.in.panicking THEN st ELSE parseLineBlockLoop(blockStep(st))

\* parseLineBlock; yields the record whose fields in and x are the input and
\* the block
parseLineBlock(in, start, token, lparen) ==
    parseLineBlockLoop([in |-> in, x |-> MkLineBlock(start, token, lparen.pos, ZeroPos),
                        comments |-> <<>>, done |-> FALSE])

\* ------------------------------------------------------------------------
\* parseStmt
\* ------------------------------------------------------------------------
\* line 530, r is what parseLineBlock yielded
stmtBlock(st, r) ==
    [st EXCEPT !.in = IF r.in.panicking THEN r.in ELSE appendStmt(r.in, r.x), !.done = TRUE]

\* lines 536-543: the empty block, in is what the lex of line 537 left
stmtEmptyBlock(st, tok, rparen, in) ==
    [st EXCEPT !.in = IF in.panicking THEN in
                      ELSE appendStmt(in, MkLineBlock(st.start, st.tokens, tok.pos, rparen.pos)),
               !.done = TRUE]

\* lines 534-547 without the test of what follows ')'
stmtParens_NoEOLTest(st, tok, rparen, in) ==
    IF in.panicking THEN [st EXCEPT !.in = in]
    ELSE stmtEmptyBlock(st, tok, rparen, lex(in))

\* lines 534-547: rparen is the token taken, in what lex left
stmtParens(st, tok, rparen, in) ==
    IF in.panicking THEN [st EXCEPT !.in = in]
    ELSE IF isEOL(peek(in)) THEN stmtEmptyBlock(st, tok, rparen, lex(in))
    ELSE \* '( )' in the middle of the line, not a block
         [st EXCEPT !.in = in, !.tokens = @ \o <<tok.text, rparen.text>>]

\* lines 519-557: tok is the token taken, in what lex left
stmtToken(st, tok, in) ==
    IF in.panicking THEN [st EXCEPT !.in = in]
    ELSE IF isEOL(tok.kind)
      THEN [st EXCEPT !.in = appendStmt(in, MkLine(st.start, st.tokens, st.end, FALSE)),
                      !.done = TRUE]
    ELSE IF tok.kind = "("
      THEN IF isEOL(peek(in))
             THEN \* start of block: no more tokens on this line
                  stmtBlock(st, parseLineBlock(in, st.start, st.tokens, tok))
           ELSE IF peek(in) = ")" THEN stmtParens(st, tok, in.token, lex(in))
           ELSE \* '(' in the middle of the line, not a block
                [st EXCEPT !.in = in, !.tokens = Append(@, tok.text)]
    ELSE [st EXCEPT !.in = in, !.tokens = Append(@, tok.text), !.end = tok.endPos]

\* the loop of lines 518-558
RECURSIVE parseStmtLoop(_)
parseStmtLoop(st) ==
    IF st.done \/ st.in.panicking THEN st
    ELSE parseStmtLoop(stmtToken(st, st.in.token, lex(st.in)))

\* lines 514-517: tok is the first token, in what lex left
stmtFirst(tok, in) ==
    [in |-> in, start |-> tok.pos, end |-> tok.endPos, tokens |-> <<tok.text>>, done |-> FALSE]

parseStmt(in) == parseStmtLoop(stmtFirst(in.token, lex(in))).in

\* ------------------------------------------------------------------------
\* parseFile
\* ------------------------------------------------------------------------
\* lines 505-508 without "cb = nil"
cbAfterStmt_Kept(cb) == cb

\* line 507: the comment block has been handed to the statement
cbAfterStmt(cb) == NilCB

\* line 506: the comments gathered become the Before of the last statement
attachBefore(in, cb) ==
    IF cb.nil THEN in
    ELSE [in EXCEPT !.file.Stmt[Len(in.file.Stmt)].Before = cb.Before]

\* lines 487-490 and 499-501: the gathered comments become a statement
flushCommentBlock(in, cb) ==
    IF cb.nil THEN in ELSE appendStmt(in, MkCommentBlock(cb.Start, cb.Before))

\* lines 486-490: in is what lex left
fileBlank(st, in) ==
    IF in.panicking THEN [st EXCEPT !.in = in]
    ELSE [st EXCEPT !.in = flushCommentBlock(in, st.cb), !.cb = NilCB]

\* lines 493-497
commentBlockOf(cb, tok) ==
    IF cb.nil THEN [nil |-> FALSE, Start |-> tok.pos, Before |-> <<>>] ELSE cb

\* lines 492-497: tok is the comment taken, in what lex left
fileComment(st, tok, in) ==
    IF in.panicking THEN [st EXCEPT !.in = in]
    ELSE [st EXCEPT !.in = in,
                    !.cb = [commentBlockOf(st.cb, tok) EXCEPT !.Before =
                               Append(@, [Start |-> tok.pos, Token |-> tok.text, Suffix |-> FALSE])]]

\* lines 504-508: in is what parseStmt left
fileStmt(st, in) ==
    IF in.panicking THEN [st EXCEPT !.in = in]
    ELSE [st EXCEPT !.in = attachBefore(in, st.cb),
                    !.cb = IF st.cb.nil THEN st.cb ELSE cbAfterStmt(st.cb)]

\* lines 484-509: one turn of the loop
fileStep(st) ==
    CASE peek(st.in) = "\n" -> fileBlank(st, lex(st.in))
      [] peek(st.in) = "COMMENT" -> fileComment(st, st.in.token, lex(st.in))
      [] peek(st.in) = "EOF" -> [st EXCEPT !.in = flushCommentBlock(st.in, st.cb), !.done = TRUE]
      [] OTHER -> fileStmt(st, parseStmt(st.in))

\* the loop of lines 483-510
RECURSIVE parseFileLoop(_)
parseFileLoop(st) ==
    IF st.done \/ st.in.panicking THEN st ELSE parseFileLoop(fileStep(st))

parseFile(in) ==
    parseFileLoop([in |-> [in EXCEPT !.file = NewFileSyntax], cb |-> NilCB, done |-> FALSE]).in

\* ------------------------------------------------------------------------
\* Comment assignment
\* ------------------------------------------------------------------------
\* An Expr of the tree is named by where it sits: the file, statement s, or,
\* inside the block that is statement s, its LParen, its RParen or line j.
FileExpr == [s |-> 0, part |-> "File", j |-> 0]

StmtExpr(s) == [s |-> s, part |-> "Stmt", j |-> 0]

LParenExpr(s) == [s |-> s, part |-> "LParen", j |-> 0]

RParenExpr(s) == [s |-> s, part |-> "RParen", j |-> 0]

BlockLineExpr(s, j) == [s |-> s, part |-> "Line", j |-> j]

\* Position.add(")"): one byte on the same line
PosAddParen(pos) == [Line |-> pos.Line, LineRune |-> pos.LineRune + 1, Byte |-> pos.Byte + 1]

\* Span of a statement
StmtSpan(x) ==
    CASE x.type = "Line" -> [start |-> x.Start, end |-> x.End]
      [] x.type = "LineBlock" -> [start |-> x.Start, end |-> PosAddParen(x.RParen.Pos)]
      [] x.type = "CommentBlock" -> [start |-> x.Start, end |-> x.Start]

\* Span of any expression of the file f
Span(f, e) ==
    CASE e.part = "File" ->
            IF Len(f.Stmt) = 0 THEN [start |-> ZeroPos, end |-> ZeroPos]
            ELSE [start |-> StmtSpan(f.Stmt[1]).start, end |-> StmtSpan(f.Stmt[Len(f.Stmt)]).end]
      [] e.part = "Stmt" -> StmtSpan(f.Stmt[e.s])
      [] e.part = "LParen" ->
            [start |-> f.Stmt[e.s].LParen.Pos, end |-> PosAddParen(f.Stmt[e.s].LParen.Pos)]
      [] e.part = "RParen" ->
            [start |-> f.Stmt[e.s].RParen.Pos, end |-> PosAddParen(f.Stmt[e.s].RParen.Pos)]
      [] e.part = "Line" -> StmtSpan(f.Stmt[e.s].Line[e.j])

\* x.Comment().Before = append(x.Comment().Before, com)
addBefore(f, e, com) ==
    CASE e.part = "File" -> [f EXCEPT !.Before = Append(@, com)]
      [] e.part = "Stmt" -> [f EXCEPT !.Stmt[e.s].Before = Append(@, com)]
      [] e.part = "LParen" -> [f EXCEPT !.Stmt[e.s].LParen.Before = Append(@, com)]
      [] e.part = "RParen" -> [f EXCEPT !.Stmt[e.s].RParen.Before = Append(@, com)]
      [] e.part = "Line" -> [f EXCEPT !.Stmt[e.s].Line[e.j].Before = Append(@, com)]

\* x.Comment().Suffix = append(x.Comment().Suffix, com)
addSuffix(f, e, com) ==
    CASE e.part = "File" -> [f EXCEPT !.Suffix = Append(@, com)]
      [] e.part = "Stmt" -> [f EXCEPT !.Stmt[e.s].Suffix = Append(@, com)]
      [] e.part = "LParen" -> [f EXCEPT !.Stmt[e.s].LParen.Suffix = Append(@, com)]
      [] e.part = "RParen" -> [f EXCEPT !.Stmt[e.s].RParen.Suffix = Append(@, com)]
      [] e.part = "Line" -> [f EXCEPT !.Stmt[e.s].Line[e.j].Suffix = Append(@, com)]

\* reverseComments
Reverse(list) == [k \in 1..Len(list) |-> list[Len(list) + 1 - k]]

\* reverseComments(x.Comment().Suffix)
reverseSuffix(f, e) ==
    CASE e.part = "File" -> [f EXCEPT !.Suffix = Reverse(@)]
      [] e.part = "Stmt" -> [f EXCEPT !.Stmt[e.s].Suffix = Reverse(@)]
      [] e.part = "LParen" -> [f EXCEPT !.Stmt[e.s].LParen.Suffix = Reverse(@)]
      [] e.part = "RParen" -> [f EXCEPT !.Stmt[e.s].RParen.Suffix = Reverse(@)]
      [] e.part = "Line" -> [f EXCEPT !.Stmt[e.s].Line[e.j].Suffix = Reverse(@)]

\* order: the preorder and postorder lists of one statement ...
stmtPre(f, s) ==
    IF f.Stmt[s].type = "LineBlock"
      THEN <<StmtExpr(s), LParenExpr(s)>>
             \o [j \in 1..Len(f.Stmt[s].Line) |-> BlockLineExpr(s, j)]
             \o <<RParenExpr(s)>>
      ELSE <<StmtExpr(s)>>

stmtPost(f, s) ==
    IF f.Stmt[s].type = "LineBlock"
      THEN <<LParenExpr(s)>>
             \o [j \in 1..Len(f.Stmt[s].Line) |-> BlockLineExpr(s, j)]
             \o <<RParenExpr(s), StmtExpr(s)>>
      ELSE <<StmtExpr(s)>>

RECURSIVE stmtsPre(_, _)
stmtsPre(f, s) == IF s > Len(f.Stmt) THEN <<>> ELSE stmtPre(f, s) \o stmtsPre(f, s + 1)

RECURSIVE stmtsPost(_, _)
stmtsPost(f, s) == IF s > Len(f.Stmt) THEN <<>> ELSE stmtPost(f, s) \o stmtsPost(f, s + 1)

\* ... and of the file: in.order(in.file)
orderPre(f) == <<FileExpr>> \o stmtsPre(f, 1)

orderPost(f) == stmtsPost(f, 1) \o <<FileExpr>>

\* lines 408-414: the whole-line comments that x takes; st = [f, list]
RECURSIVE takeLineComments(_, _)
takeLineComments(st, e) ==
    IF Len(st.list) > 0 /\ Span(st.f, e).start.Byte >= st.list[1].Start.Byte
      THEN takeLineComments([f |-> addBefore(st.f, e, st.list[1]), list |-> Tail(st.list)], e)
      ELSE st

\* the loop of lines 402-415
RECURSIVE assignLineComments(_, _, _)
assignLineComments(st, pre, i) ==
    IF i > Len(pre) THEN st
    ELSE assignLineComments(takeLineComments(st, pre[i]), pre, i + 1)

\* lines 453-459: the suffix comments that x takes, last first
RECURSIVE takeSuffixComments(_, _)
takeSuffixComments(st, e) ==
    IF Len(st.list) > 0 /\ Span(st.f, e).end.Byte <= st.list[Len(st.list)].Start.Byte
      THEN takeSuffixComments([f |-> addSuffix(st.f, e, st.list[Len(st.list)]),
                               list |-> SubSeq(st.list, 1, Len(st.list) - 1)], e)
      ELSE st

\* lines 428-459 without the case of the file
suffixAt_FileToo(st, e) ==
    IF Span(st.f, e).start.Line # Span(st.f, e).end.Line THEN st
    ELSE takeSuffixComments(st, e)

\* lines 428-459: no suffix comment goes to the file, nor to an expression
\* that starts on an earlier line than it ends
suffixAt(st, e) ==
    IF e.part = "File" THEN st
    ELSE IF Span(st.f, e).start.Line # Span(st.f, e).end.Line THEN st
    ELSE takeSuffixComments(st, e)

\* the loop of lines 427-460
RECURSIVE assignSuffixComments(_, _, _)
assignSuffixComments(st, post, i) ==
    IF i < 1 THEN st ELSE assignSuffixComments(suffixAt(st, post[i]), post, i - 1)

\* the loop of lines 465-467
RECURSIVE reverseAll(_, _, _)
reverseAll(f, post, i) ==
    IF i > Len(post) THEN f ELSE reverseAll(reverseSuffix(f, post[i]), post, i + 1)

SelectSeq2(list, suffix) ==
    SelectSeq(list, LAMBDA c : c.Suffix = suffix)

\* assignComments attaches comments to nearby syntax
assignComments(in) ==
    LET pre == orderPre(in.file)
        post == orderPost(in.file)
        line == SelectSeq2(in.comments, FALSE)
        suffix == SelectSeq2(in.comments, TRUE)
        st1 == assignLineComments([f |-> in.file, list |-> line], pre, 1)
        f1 == [st1.f EXCEPT !.After = @ \o st1.list]
        st2 == assignSuffixComments([f |-> f1, list |-> suffix], post, Len(post))
        f2 == reverseAll(st2.f, post, 1)
    IN [in EXCEPT !.file = [f2 EXCEPT !.Before = @ \o st2.list]]

\* ------------------------------------------------------------------------
\* parse
\* ------------------------------------------------------------------------
NilFile == NoFile

\* the deferred function of lines 66-77 when a panic of Error is recovered:
\* f is still nil and err becomes the error list if that is not empty
recovered(in) == [f |-> NilFile, err |-> in.parseErrors, lexed |-> in.lexed]

\* lines 86-93
returned(in) ==
    IF Len(in.parseErrors) > 0 THEN [f |-> NilFile, err |-> in.parseErrors, lexed |-> in.lexed]
    ELSE [f |-> assignComments(in).file, err |-> <<>>, lexed |-> in.lexed]

\* lines 66-93: in is the input when parse is left, by a panic or not
parseEnd(in) == IF in.panicking THEN recovered(in) ELSE returned(in)

\* lines 82-85: in is what the first readToken left
parseTokens(in) == IF in.panicking THEN in ELSE parseFile(in)

\* parse(file, data): the tree and the error list (empty for a nil error)
parse(bytes) == parseEnd(parseTokens(readToken(newInput(bytes))))

\* ------------------------------------------------------------------------
\* Parser: the documents and the parse run
\* ------------------------------------------------------------------------
MaxLines == 4

\* the lines a document is made of, without their newline
LineTemplates ==
    { <<"a", " ", "b">>,
      <<"a", " ", "(">>,
      <<")">>,
      <<>>,
      <<"\t", "/", "/", "c">>,
      <<"a", " ", "/", "/", "c">>,
      <<"\"", "s">>,
      <<"a", "/", "*">> }

\* the documents of exactly n lines, n > 0, with a newline between two lines:
\* one that ends in a newline has the empty line as its last
RECURSIVE DocsOf(_)
DocsOf(n) ==
    IF n = 1 THEN LineTemplates
    ELSE {l \o <<"\n">> \o d : l \in LineTemplates, d \in DocsOf(n - 1)}

\* the documents of at most n lines
Documents(n) == UNION {DocsOf(k) : k \in 1..n}

NotParsed == [done |-> FALSE, f |-> NilFile, err |-> <<>>, lexed |-> <<>>]

\* the lexer and parseReplace when another function is exercised
NoLexCall == [off |-> 0, kind |-> "none"]

LexIdle ==
    /\ lexer = newInput(<<>>)
    /\ lexOp = "none"
    /\ lexPrev = NoLexCall

\* the nil *modfile.Replace
NilReplace ==
    [nil |-> TRUE, Old |-> [Path |-> "", Version |-> ""], New |-> [Path |-> "", Version |-> ""],
     Syntax |-> 0]

NotDecoded == [done |-> FALSE, entry |-> NilReplace, err |-> "", line |-> 0]

DecodeIdle ==
    /\ replArgs = <<>>
    /\ replRet = NotDecoded

ParseIdle ==
    /\ data = <<>>
    /\ parsed = NotParsed
    /\ LexIdle
    /\ DecodeIdle

\* ------------------------------------------------------------------------
\* Manifest editor: data
\* ------------------------------------------------------------------------
NilLine == 0

\* module.Version{} and modfile.Replace{}: the zero values
ZeroVersion == [Path |-> "", Version |-> ""]

ZeroReplace == [Old |-> ZeroVersion, New |-> ZeroVersion, Syntax |-> NilLine]

\* An Expr interface value: the nil interface, or a typed pointer
\* (a *Line or *LineBlock, whose ptr may itself be the nil pointer 0).
NilExpr == [type |-> "nil", ptr |-> 0]

LineExpr(id) == [type |-> "Line", ptr |-> id]

BlockExpr(id) == [type |-> "LineBlock", ptr |-> id]

\* modfile.AutoQuote: quote the string if it is empty or holds a character
\* that would not survive lexing as a bare identifier.
MustQuote(s) == s \in {"", "./my dir"}

Quote(s) == IF s = "" THEN "\"\"" ELSE IF s = "./my dir" THEN "\"./my dir\"" ELSE s

AutoQuote(s) == IF MustQuote(s) THEN Quote(s) ELSE s

\* module.CanonicalVersion: "" for a string that is not a semantic version
CanonicalVersion(v) ==
    CASE v = "v1.0.0" -> "v1.0.0"
      [] v = "v2.0.0" -> "v2.0.0"
      [] v = "v1" -> "v1.0.0"
      [] OTHER -> ""

\* ------------------------------------------------------------------------
\* markLineAsRemoved, updateLine
\* ------------------------------------------------------------------------
\* lines 854-855 without the second assignment
markLineAsRemoved_SuffixKept(h, line) == [h EXCEPT ![line].Token = <<>>]

markLineAsRemoved(h, line) == [h EXCEPT ![line].Token = <<>>, ![line].Suffix = <<>>]

updateLine(h, line, tokens) ==
    [h EXCEPT ![line].Token = IF h[line].InBlock THEN Tail(tokens) ELSE tokens]

\* ------------------------------------------------------------------------
\* addLine
\* ------------------------------------------------------------------------
NewLine(tokens, inBlock) == [Token |-> tokens, InBlock |-> inBlock, Before |-> <<>>, Suffix |-> <<>>]

\* the loop of lines 893-908: the last statement whose first token is tokens[0]
RECURSIVE lastStmtOfType(_, _, _, _)
lastStmtOfType(x, h, i, tok0) ==
    IF i < 1 THEN NilExpr
    ELSE LET stmt == x.Stmt[i] IN
         IF stmt.type = "Line" /\ h[stmt.id].Token # <<>> /\ h[stmt.id].Token[1] = tok0
           THEN LineExpr(stmt.id)
         ELSE IF stmt.type = "LineBlock" /\ stmt.Token[1] = tok0
           THEN BlockExpr(stmt.id)
         ELSE lastStmtOfType(x, h, i - 1, tok0)

\* newLineAfter(i) without the shift of lines 915-916
newLineAfter_NoShift(x, h, i, tokens) ==
    LET newl == Len(h) + 1 IN
    [syntax |-> [x EXCEPT !.Stmt = IF i = Len(x.Stmt) THEN Append(x.Stmt, [type |-> "Line", id |-> newl])
                                   ELSE [x.Stmt EXCEPT ![i + 1] = [type |-> "Line", id |-> newl]]],
     heap |-> Append(h, NewLine(tokens, FALSE)),
     line |-> newl]

\* newLineAfter(i), i being the 1-based index of the statement
newLineAfter(x, h, i, tokens) ==
    LET newl == Len(h) + 1 IN
    [syntax |-> [x EXCEPT !.Stmt = InsertAt(x.Stmt, i + 1, [type |-> "Line", id |-> newl])],
     heap |-> Append(h, NewLine(tokens, FALSE)),
     line |-> newl]

\* index of hint in the lines of a block, 0 when absent
RECURSIVE indexOfLine(_, _, _)
indexOfLine(lines, hint, j) ==
    IF j > Len(lines) THEN 0
    ELSE IF hint.type = "Line" /\ hint.ptr = lines[j] THEN j
    ELSE indexOfLine(lines, hint, j + 1)

\* the last statement has been passed without finding the hint (lines 971-973)
appendAtEnd(x, h, tokens) ==
    LET newl == Len(h) + 1 IN
    [syntax |-> [x EXCEPT !.Stmt = Append(x.Stmt, [type |-> "Line", id |-> newl])],
     heap |-> Append(h, NewLine(tokens, FALSE)),
     line |-> newl]

\* the loop of lines 924-968
RECURSIVE addLineAtHint(_, _, _, _, _)
addLineAtHint(x, h, hint, tokens, i) ==
    IF i > Len(x.Stmt) THEN appendAtEnd(x, h, tokens)
    ELSE LET stmt == x.Stmt[i] IN
      IF stmt.type = "Line" THEN
         IF hint.type = "Line" /\ hint.ptr = stmt.id THEN
            IF h[stmt.id].Token = <<>> \/ h[stmt.id].Token[1] # tokens[1]
              THEN newLineAfter(x, h, i, tokens)
              ELSE \* convert line to line block
                   LET newl == Len(h) + 1
                       block == [type |-> "LineBlock", id |-> x.nblock + 1,
                                 Token |-> SubSeq(h[stmt.id].Token, 1, 1),
                                 Line |-> <<stmt.id, newl>>]
                       h1 == [h EXCEPT ![stmt.id].InBlock = TRUE,
                                       ![stmt.id].Token = Tail(h[stmt.id].Token)]
                   IN [syntax |-> [x EXCEPT !.Stmt[i] = block, !.nblock = x.nblock + 1],
                       heap |-> Append(h1, NewLine(Tail(tokens), TRUE)),
                       line |-> newl]
         ELSE addLineAtHint(x, h, hint, tokens, i + 1)
      ELSE IF stmt.type = "LineBlock" THEN
         IF hint.type = "LineBlock" /\ hint.ptr = stmt.id THEN
            IF stmt.Token[1] # tokens[1]
              THEN newLineAfter(x, h, i, tokens)
              ELSE LET newl == Len(h) + 1 IN
                   [syntax |-> [x EXCEPT !.Stmt[i].Line = Append(stmt.Line, newl)],
                    heap |-> Append(h, NewLine(Tail(tokens), TRUE)),
                    line |-> newl]
         ELSE LET j == indexOfLine(stmt.Line, hint, 1) IN
            IF j # 0 THEN
               IF stmt.Token[1] # tokens[1]
                 THEN newLineAfter(x, h, i, tokens)
                 ELSE \* add new line after hint within the block
                      LET newl == Len(h) + 1 IN
                      [syntax |-> [x EXCEPT !.Stmt[i].Line = InsertAt(stmt.Line, j + 1, newl)],
                       heap |-> Append(h, NewLine(Tail(tokens), TRUE)),
                       line |-> newl]
            ELSE addLineAtHint(x, h, hint, tokens, i + 1)
      ELSE addLineAtHint(x, h, hint, tokens, i + 1)

\* addLine without the search of lines 891-909
addLine_NoSearch(x, h, hint, tokens) ==
    IF hint # NilExpr THEN addLineAtHint(x, h, hint, tokens, 1)
    ELSE appendAtEnd(x, h, tokens)

\* addLine(x, hint, tokens...): hint is an Expr interface value.  "hint == nil"
\* holds for the nil interface only, not for a nil *Line stored in it.
addLine(x, h, hint, tokens) ==
    LET hint1 == IF hint = NilExpr THEN lastStmtOfType(x, h, Len(x.Stmt), tokens[1]) ELSE hint
    IN IF hint1 # NilExpr THEN addLineAtHint(x, h, hint1, tokens, 1)
       ELSE appendAtEnd(x, h, tokens)

\* ------------------------------------------------------------------------
\* addReplace
\* ------------------------------------------------------------------------
\* lines 980-987
replaceTokens(oldPath, oldVers, newPath, newVers) ==
    <<"replace", AutoQuote(oldPath)>>
      \o (IF oldVers # "" THEN <<oldVers>> ELSE <<>>)
      \o <<"=>", AutoQuote(newPath)>>
      \o (IF newVers # "" THEN <<newVers>> ELSE <<>>)

\* line 991 without its "|| r.Old.Version == oldVers"
replaceMatches_WildcardOnly(r, oldPath, oldVers) ==
    r.Old.Path = oldPath /\ oldVers = ""

\* line 991 comparing the path alone
replaceMatches_AnyVersion(r, oldPath, oldVers) ==
    r.Old.Path = oldPath

\* the condition of line 991
replaceMatches(r, oldPath, oldVers) ==
    r.Old.Path = oldPath /\ (oldVers = "" \/ r.Old.Version = oldVers)

\* lines 993-996 without "need = false"
updateFirstMatch_NeedStays(st, i, newv, tokens) ==
    LET r == st.replace[i] IN
    IF r.Syntax = NilLine
      THEN [st EXCEPT !.panicked = TRUE]
      ELSE [st EXCEPT !.replace[i].New = newv,
                      !.heap = updateLine(st.heap, r.Syntax, tokens)]

\* the statements of lines 993-996, run on the first match
updateFirstMatch(st, i, newv, tokens) ==
    LET r == st.replace[i] IN
    IF r.Syntax = NilLine
      THEN [st EXCEPT !.panicked = TRUE]     \* updateLine dereferences a nil *Line
      ELSE [st EXCEPT !.replace[i].New = newv,
                      !.heap = updateLine(st.heap, r.Syntax, tokens),
                      !.need = FALSE]

\* the statements of lines 1000-1001, run on every later match
removeLaterMatch(st, i) ==
    LET r == st.replace[i] IN
    IF r.Syntax = NilLine
      THEN [st EXCEPT !.panicked = TRUE]     \* markLineAsRemoved dereferences a nil *Line
      ELSE [st EXCEPT !.heap = markLineAsRemoved(st.heap, r.Syntax),
                      !.replace[i] = ZeroReplace]

\* the loop of lines 990-1006; st = [heap, replace, need, hint, panicked]
RECURSIVE replaceLoop(_, _, _, _, _, _)
replaceLoop(st, i, oldPath, oldVers, newv, tokens) ==
    IF i > Len(st.replace) \/ st.panicked THEN st
    ELSE LET r == st.replace[i] IN
      IF replaceMatches(r, oldPath, oldVers) /\ st.need
        THEN replaceLoop(updateFirstMatch(st, i, newv, tokens), i + 1, oldPath, oldVers, newv, tokens)
        ELSE LET st1 == IF replaceMatches(r, oldPath, oldVers) THEN removeLaterMatch(st, i) ELSE st
                 r1 == st1.replace[i]
                 st2 == IF r1.Old.Path = oldPath THEN [st1 EXCEPT !.hint = r1.Syntax] ELSE st1
             IN replaceLoop(st2, i + 1, oldPath, oldVers, newv, tokens)

\* addReplace(syntax, replace, oldPath, oldVers, newPath, newVers)
addReplace(x, h, rep, oldPath, oldVers, newPath, newVers) ==
    LET oldv == [Path |-> oldPath, Version |-> oldVers]
        newv == [Path |-> newPath, Version |-> newVers]
        tokens == replaceTokens(oldPath, oldVers, newPath, newVers)
        st == replaceLoop([heap |-> h, replace |-> rep, need |-> TRUE,
                           hint |-> NilLine, panicked |-> FALSE],
                          1, oldPath, oldVers, newv, tokens)
    IN IF st.panicked
         THEN [syntax |-> x, heap |-> st.heap, replace |-> st.replace, ret |-> "panic"]
       ELSE IF st.need
         THEN LET a == addLine(x, st.heap, LineExpr(st.hint), tokens) IN
              [syntax |-> a.syntax, heap |-> a.heap,
               replace |-> Append(st.replace, [Old |-> oldv, New |-> newv, Syntax |-> a.line]),
               ret |-> "nil"]
       ELSE [syntax |-> x, heap |-> st.heap, replace |-> st.replace, ret |-> "nil"]

\* ------------------------------------------------------------------------
\* Manifest editor: the manifests an edit session starts from (what Parse
\* yields for the file shown above each of them) and the call arguments
\* ------------------------------------------------------------------------
MaxCalls == 3

OldPaths == {"p", "q"}

OldVersions == {"", "v1.0.0", "bad"}

NewCoords == {[Path |-> "n", Version |-> "v2.0.0"], [Path |-> "./my dir", Version |-> ""],
              [Path |-> "n", Version |-> "bad"]}

MV(p, v) == [Path |-> p, Version |-> v]

Rep(op, ov, np, nv, line) == [Old |-> MV(op, ov), New |-> MV(np, nv), Syntax |-> line]

TopLine(id) == [type |-> "Line", id |-> id]

HLine(tokens, inBlock, suffix) == [Token |-> tokens, InBlock |-> inBlock, Before |-> <<>>, Suffix |-> suffix]

\*   module m
ManifestNoReplace ==
    [syntax |-> [Stmt |-> <<TopLine(1)>>, nblock |-> 0],
     heap |-> <<HLine(<<"module", "m">>, FALSE, <<>>)>>,
     replace |-> <<>>]

\*   module m
\*   replace p => n v1.0.0 // c
ManifestBareLine ==
    [syntax |-> [Stmt |-> <<TopLine(1), TopLine(2)>>, nblock |-> 0],
     heap |-> <<HLine(<<"module", "m">>, FALSE, <<>>),
                HLine(<<"replace", "p", "=>", "n", "v1.0.0">>, FALSE, <<"// c">>)>>,
     replace |-> <<Rep("p", "", "n", "v1.0.0", 2)>>]

\*   module m
\*   replace (
\*       p v1.0.0 => n v1.0.0
\*       q => "./my dir"
\*   )
\*   require x v1.0.0
ManifestBlock ==
    [syntax |-> [Stmt |-> <<TopLine(1),
                            [type |-> "LineBlock", id |-> 1, Token |-> <<"replace">>, Line |-> <<2, 3>>],
                            TopLine(4)>>,
                 nblock |-> 1],
     heap |-> <<HLine(<<"module", "m">>, FALSE, <<>>),
                HLine(<<"p", "v1.0.0", "=>", "n", "v1.0.0">>, TRUE, <<>>),
                HLine(<<"q", "=>", "\"./my dir\"">>, TRUE, <<>>),
                HLine(<<"require", "x", "v1.0.0">>, FALSE, <<>>)>>,
     replace |-> <<Rep("p", "v1.0.0", "n", "v1.0.0", 2), Rep("q", "", "./my dir", "", 3)>>]

\*   replace p v1.0.0 => n v1.0.0
\*   replace p => n v1.0.0
\*   // b
\*   replace p v1.0.0 => n v2.0.0 // c
\*   replace p v2.0.0 => n v2.0.0
ManifestDuplicates ==
    [syntax |-> [Stmt |-> <<TopLine(1), TopLine(2), TopLine(3), TopLine(4)>>, nblock |-> 0],
     heap |-> <<HLine(<<"replace", "p", "v1.0.0", "=>", "n", "v1.0.0">>, FALSE, <<>>),
                HLine(<<"replace", "p", "=>", "n", "v1.0.0">>, FALSE, <<>>),
                [HLine(<<"replace", "p", "v1.0.0", "=>", "n", "v2.0.0">>, FALSE, <<"// c">>)
                    EXCEPT !.Before = <<"// b">>],
                HLine(<<"replace", "p", "v2.0.0", "=>", "n", "v2.0.0">>, FALSE, <<>>)>>,
     replace |-> <<Rep("p", "v1.0.0", "n", "v1.0.0", 1), Rep("p", "", "n", "v1.0.0", 2),
                   Rep("p", "v1.0.0", "n", "v2.0.0", 3), Rep("p", "v2.0.0", "n", "v2.0.0", 4)>>]

\*   replace (
\*       p => n v1.0.0
\*       p v2.0.0 => n v1.0.0
\*   )
\*   require x v1.0.0
\*   replace q v1.0.0 => n v1.0.0
ManifestMixed ==
    [syntax |-> [Stmt |-> <<[type |-> "LineBlock", id |-> 1, Token |-> <<"replace">>, Line |-> <<1, 2>>],
                            TopLine(3), TopLine(4)>>,
                 nblock |-> 1],
     heap |-> <<HLine(<<"p", "=>", "n", "v1.0.0">>, TRUE, <<>>),
                HLine(<<"p", "v2.0.0", "=>", "n", "v1.0.0">>, TRUE, <<>>),
                HLine(<<"require", "x", "v1.0.0">>, FALSE, <<>>),
                HLine(<<"replace", "q", "v1.0.0", "=>", "n", "v1.0.0">>, FALSE, <<>>)>>,
     replace |-> <<Rep("p", "", "n", "v1.0.0", 1), Rep("p", "v2.0.0", "n", "v1.0.0", 2),
                   Rep("q", "v1.0.0", "n", "v1.0.0", 4)>>]

InitialManifests ==
    {ManifestNoReplace, ManifestBareLine, ManifestBlock, ManifestDuplicates, ManifestMixed}

\* ------------------------------------------------------------------------
\* Manifest editor: what the claims speak of
\* ------------------------------------------------------------------------
IsLive(r) == r.Syntax # NilLine

LiveEntries(rep) == {i \in DOMAIN rep : IsLive(rep[i])}

DistinctOlds(rep) ==
    \A i, j \in LiveEntries(rep) : i # j => rep[i].Old # rep[j].Old

\* live entries that a call for (oldPath, oldVers) is about
LiveMatching(rep, oldPath, oldVers) ==
    {i \in LiveEntries(rep) :
        rep[i].Old.Path = oldPath /\ (oldVers = "" \/ rep[i].Old.Version = oldVers)}

LiveExactly(rep, oldPath, oldVers) ==
    {i \in LiveEntries(rep) : rep[i].Old = MV(oldPath, oldVers)}

\* strconv.Unquote on the quoted strings AutoQuote produces
Unquote(t) == IF t = "\"\"" THEN "" ELSE IF t = "\"./my dir\"" THEN "./my dir" ELSE t

\* the coordinates a replace line's tokens encode: old [oldVers] => new [newVers]
lineArgs(l) == IF l.InBlock THEN l.Token ELSE Tail(l.Token)

lineCoords(l) ==
    LET args == lineArgs(l)
        arrow == IF Len(args) >= 2 /\ args[2] = "=>" THEN 2 ELSE 3
    IN [Old |-> MV(Unquote(args[1]), IF arrow = 3 THEN args[2] ELSE ""),
        New |-> MV(Unquote(args[arrow + 1]), IF Len(args) = arrow + 2 THEN args[arrow + 2] ELSE "")]

Malformed(v) == v # "" /\ CanonicalVersion(v) = ""

\* the editor when another component is exercised
EditIdle ==
    /\ syntax = ManifestNoReplace.syntax
    /\ heap = ManifestNoReplace.heap
    /\ replace = ManifestNoReplace.replace
    /\ ret = "none"
    /\ preState = ManifestNoReplace
    /\ lastArgs = NoArgs
    /\ repeated = FALSE
    /\ ncalls = 0
    /\ initDistinct = TRUE

\* ------------------------------------------------------------------------
\* parseReplace
\* ------------------------------------------------------------------------
\* strings.HasPrefix(t, "\"") on the tokens used
StartsWithQuote(t) == t \in {"\"\"", "\"./my dir\"", "\"x"}

\* strconv.Unquote fails on a string that its closing quote does not end
UnquoteFails(t) == t = "\"x"

\* strings.ContainsAny(t, quotes) on the tokens used
ContainsQuote(t) == t \in {"\"\"", "\"./my dir\"", "\"x", "a'b"}

\* parseString: [t, err]
parseString(t) ==
    IF StartsWithQuote(t)
      THEN IF UnquoteFails(t) THEN [t |-> "", err |-> "invalid syntax"]
           ELSE [t |-> Unquote(t), err |-> ""]
    ELSE IF ContainsQuote(t) THEN [t |-> "", err |-> "unquoted string cannot contain quote"]
    ELSE [t |-> t, err |-> ""]

\* module.SplitPathVersion rejects a path that ends in /v0 or /v1
modulePathMajor(path) ==
    IF path \in {"p/v1", "p/v0"} THEN [major |-> "", err |-> "invalid module path"]
    ELSE IF path = "p/v2" THEN [major |-> "/v2", err |-> ""]
    ELSE [major |-> "", err |-> ""]

\* parseVersion: [v, err]
parseVersion(t) ==
    IF parseString(t).err # "" THEN [v |-> "", err |-> "invalid version"]
    ELSE IF CanonicalVersion(parseString(t).t) = ""
      THEN [v |-> "", err |-> "must be of the form v1.2.3"]
    ELSE [v |-> CanonicalVersion(parseString(t).t), err |-> ""]

\* module.CheckPathMajor: a path without major suffix takes v0 and v1 only
CheckPathMajor(v, pathMajor) ==
    IF pathMajor = "" THEN v \in {"v0.1.0", "v1.0.0"} ELSE v = "v2.0.0"

\* modfile.IsDirectoryPath on the tokens used
IsDirectoryPath(ns) == ns \in {".", "..", "./d", "./my dir", "../d", "/d", ".\\d"}

ContainsBackslash(ns) == ns = ".\\d"

ContainsAt(ns) == ns = "n@v1.0.0"

ReplaceError(msg) == [entry |-> NilReplace, err |-> msg]

\* lines 781-790
newVersionOf(line, s, v, ns, arg) ==
    IF parseVersion(arg).err # "" THEN ReplaceError(parseVersion(arg).err)
    ELSE IF IsDirectoryPath(ns) THEN ReplaceError("replacement module directory path cannot have version")
    ELSE [entry |-> [nil |-> FALSE, Old |-> MV(s, v), New |-> MV(ns, parseVersion(arg).v),
                     Syntax |-> line],
          err |-> ""]

\* lines 770-780 without the test of IsDirectoryPath
newPathAlone_AnyPath(line, s, v, ns) ==
    IF ContainsBackslash(ns)
      THEN ReplaceError("replacement directory appears to be Windows path")
    ELSE [entry |-> [nil |-> FALSE, Old |-> MV(s, v), New |-> MV(ns, ""), Syntax |-> line],
          err |-> ""]

\* lines 770-780 and 791-795
newPathAlone(line, s, v, ns) ==
    IF ~IsDirectoryPath(ns)
      THEN IF ContainsAt(ns)
             THEN ReplaceError("replacement module must match format 'path version', not 'path@version'")
             ELSE ReplaceError("replacement module without version must be directory path")
    ELSE IF ContainsBackslash(ns)
      THEN ReplaceError("replacement directory appears to be Windows path")
    ELSE [entry |-> [nil |-> FALSE, Old |-> MV(s, v), New |-> MV(ns, ""), Syntax |-> line],
          err |-> ""]

\* lines 766-795, old path s and old version v being decoded
replacement(line, args, arrow, s, v) ==
    IF parseString(args[arrow + 2]).err # "" THEN ReplaceError("invalid quoted string")
    ELSE IF Len(args) = arrow + 2
      THEN newPathAlone(line, s, v, parseString(args[arrow + 2]).t)
      ELSE newVersionOf(line, s, v, parseString(args[arrow + 2]).t, args[arrow + 3])

\* lines 756-765, old path s being decoded
oldVersion(line, args, arrow, s) ==
    IF arrow = 1 THEN replacement(line, args, arrow, s, "")
    ELSE IF parseVersion(args[2]).err # "" THEN ReplaceError(parseVersion(args[2]).err)
    ELSE IF ~CheckPathMajor(parseVersion(args[2]).v, modulePathMajor(s).major)
      THEN ReplaceError("version does not match the major version of the path")
    ELSE replacement(line, args, arrow, s, parseVersion(args[2]).v)

\* lines 741-743: the 0-based index of the arrow, were the list well formed
arrowOf(args) == IF Len(args) >= 2 /\ args[2] = "=>" THEN 1 ELSE 2

\* parseReplace(filename, line, verb, args): [entry, err]
parseReplace(line, args) ==
    IF Len(args) < arrowOf(args) + 2 \/ Len(args) > arrowOf(args) + 3
         \/ args[arrowOf(args) + 1] # "=>"
      THEN ReplaceError("usage: replace module/path [v1.2.3] => other/module v1.4")
    ELSE IF parseString(args[1]).err # "" THEN ReplaceError("invalid quoted string")
    ELSE IF modulePathMajor(parseString(args[1]).t).err # ""
      THEN ReplaceError(modulePathMajor(parseString(args[1]).t).err)
    ELSE oldVersion(line, args, arrowOf(args), parseString(args[1]).t)

\* ------------------------------------------------------------------------
\* Import extraction: file names and import paths are byte strings
\* ------------------------------------------------------------------------
HasPrefix(s, pre) == Len(s) >= Len(pre) /\ SubSeq(s, 1, Len(pre)) = pre

HasSuffix(s, suf) == Len(s) >= Len(suf) /\ SubSeq(s, Len(s) - Len(suf) + 1, Len(s)) = suf

\* the byte values of the characters used in import paths
Code(c) ==
    CASE c = "." -> 46 [] c = "/" -> 47 [] c = "1" -> 49 [] c = "2" -> 50
      [] c = "p" -> 112 [] c = "s" -> 115 [] c = "t" -> 116 [] OTHER -> 0

\* a < b for Go strings: byte-wise lexicographic order
RECURSIVE StrLess(_, _)
StrLess(a, b) ==
    IF b = <<>> THEN FALSE
    ELSE IF a = <<>> THEN TRUE
    ELSE IF Code(Head(a)) # Code(Head(b)) THEN Code(Head(a)) < Code(Head(b))
    ELSE StrLess(Tail(a), Tail(b))

\* filepath.Ext: the suffix beginning at the final dot, "" without a dot
RECURSIVE ExtFrom(_, _)
ExtFrom(name, i) ==
    IF i < 1 THEN <<>>
    ELSE IF name[i] = "." THEN SubSeq(name, i, Len(name))
    ELSE ExtFrom(name, i - 1)

Ext(name) == ExtFrom(name, Len(name))

DotGno == <<".", "g", "n", "o">>

FiletestGno == <<"_", "f", "i", "l", "e", "t", "e", "s", "t", ".", "g", "n", "o">>

\* load.IsGnoFile without the hidden-file test
IsGnoFile_HiddenToo(f) ==
    HasSuffix(f.name, DotGno) /\ ~f.isDir

\* load.IsGnoFile
IsGnoFile(f) ==
    ~HasPrefix(f.name, <<".">>) /\ HasSuffix(f.name, DotGno) /\ ~f.isDir

\* append the elements of list not yet in acc, in order
RECURSIVE AppendNew(_, _)
AppendNew(acc, list) ==
    IF list = <<>> THEN acc
    ELSE IF \E k \in DOMAIN acc : acc[k] = Head(list) THEN AppendNew(acc, Tail(list))
    ELSE AppendNew(Append(acc, Head(list)), Tail(list))

\* sort.Strings
RECURSIVE InsertSorted(_, _)
InsertSorted(sorted, e) ==
    IF sorted = <<>> THEN <<e>>
    ELSE IF StrLess(e, Head(sorted)) THEN <<e>> \o sorted
    ELSE <<Head(sorted)>> \o InsertSorted(Tail(sorted), e)

RECURSIVE SortStrings(_)
SortStrings(list) ==
    IF list = <<>> THEN <<>> ELSE InsertSorted(SortStrings(Tail(list)), Head(list))

\* load.GetGnoFileImports: the import paths a source file declares, each once;
\* an error for what cannot be read as a file
GetGnoFileImports(f) ==
    IF f.isDir THEN [err |-> "read", imports |-> <<>>]
    ELSE [err |-> "nil", imports |-> AppendNew(<<>>, f.imports)]

\* load.GetGnoPackageImports: the imports of the directory's source files,
\* file tests left out, merged without duplicates and sorted
RECURSIVE packageImportsLoop(_, _, _)
packageImportsLoop(entries, i, all) ==
    IF i > Len(entries) THEN all
    ELSE LET e == entries[i] IN
         IF ~IsGnoFile(e) \/ HasSuffix(e.name, FiletestGno)
           THEN packageImportsLoop(entries, i + 1, all)
           ELSE packageImportsLoop(entries, i + 1, AppendNew(all, GetGnoFileImports(e).imports))

GetGnoPackageImports(entries) == SortStrings(packageImportsLoop(entries, 1, <<>>))

\* ------------------------------------------------------------------------
\* mod why
\* ------------------------------------------------------------------------
\* m[imp] = append(m[imp], filename) for every imp of imports (lines 1383-1385)
RECURSIVE appendFile(_, _, _)
appendFile(m, imports, filename) ==
    IF imports = <<>> THEN m
    ELSE LET imp == Head(imports)
             m1 == IF imp \in DOMAIN m
                     THEN [m EXCEPT ![imp] = Append(m[imp], filename)]
                     ELSE [k \in DOMAIN m \cup {imp} |-> IF k = imp THEN <<filename>> ELSE m[k]]
         IN appendFile(m1, Tail(imports), filename)

\* lines 1372-1378 without the test of the _filetest.gno suffix
whyFileSkipped_FiletestRead(filename) == Ext(filename) # DotGno

\* lines 1372-1378: the entries the loop passes over
whyFileSkipped(filename) ==
    \/ Ext(filename) # DotGno
    \/ HasSuffix(filename, FiletestGno)

\* the loop of lines 1370-1386
RECURSIVE importToFilesLoop(_, _, _)
importToFilesLoop(entries, i, m) ==
    IF i > Len(entries) THEN [err |-> "nil", m |-> m]
    ELSE LET e == entries[i] IN
         IF whyFileSkipped(e.name) THEN importToFilesLoop(entries, i + 1, m)
         ELSE LET r == GetGnoFileImports(e) IN
              IF r.err # "nil" THEN [err |-> r.err, m |-> <<>>]
              ELSE importToFilesLoop(entries, i + 1, appendFile(m, r.imports, e.name))

\* getImportToFilesMap; the empty map is the function with the empty domain
getImportToFilesMap(entries) == importToFilesLoop(entries, 1, <<>>)

\* the lines of the output text, each ended by "\n" in the code
HeaderLine(arg) == [kind |-> "header", text |-> arg]

MarkerLine(modulePath, arg) == [kind |-> "marker", text |-> arg, module |-> modulePath]

FileLine(file) == [kind |-> "file", text |-> file]

BlankLine == [kind |-> "blank"]

\* lines 1347-1354 with the test of ok inverted
stanzaBody_Inverted(modulePath, arg, m) ==
    IF arg \in DOMAIN m
      THEN <<MarkerLine(modulePath, arg)>>
      ELSE <<>>

\* lines 1347-1354: the lines after the header of one stanza
stanzaBody(modulePath, arg, m) ==
    IF arg \notin DOMAIN m
      THEN <<MarkerLine(modulePath, arg)>>
      ELSE [k \in 1..Len(m[arg]) |-> FileLine(m[arg][k])]

\* formatModWhyStanzas
RECURSIVE formatModWhyStanzasFrom(_, _, _, _)
formatModWhyStanzasFrom(modulePath, args, m, i) ==
    IF i > Len(args) THEN <<>>
    ELSE <<HeaderLine(args[i])>> \o stanzaBody(modulePath, args[i], m)
           \o (IF i < Len(args) THEN <<BlankLine>> ELSE <<>>)
           \o formatModWhyStanzasFrom(modulePath, args, m, i + 1)

formatModWhyStanzas(modulePath, args, m) == formatModWhyStanzasFrom(modulePath, args, m, 1)

\* execModWhy from line 1327 on
execModWhy(modulePath, args, entries) ==
    LET r == getImportToFilesMap(entries) IN
    IF r.err # "nil" THEN [err |-> r.err, out |-> <<>>]
    ELSE [err |-> "nil", out |-> formatModWhyStanzas(modulePath, args, r.m)]

\* ------------------------------------------------------------------------
\* load.go: the recursive file collection
\* A path is the sequence of its elements, each a name; the element Slash
\* in front makes it absolute.
\* ------------------------------------------------------------------------
Dot == <<".">>

Slash == <<"/">>

NoDot(elem) == elem # Dot

\* filepath.IsAbs
IsAbs(path) == path # <<>> /\ path[1] = Slash

\* filepath.Clean: the "." elements go, and the empty path is "."
Clean(path) ==
    IF SelectSeq(path, NoDot) = <<>> THEN <<Dot>> ELSE SelectSeq(path, NoDot)

\* filepath.Join
Join(dirPath, name) == Clean(Append(dirPath, name))

\* filepath.Dir of a cleaned path
DirOfClean(c) ==
    IF Len(c) >= 2 THEN SubSeq(c, 1, Len(c) - 1)
    ELSE IF IsAbs(c) THEN c
    ELSE <<Dot>>

\* filepath.Dir
Dir(path) == DirOfClean(Clean(path))

\* ensurePathPrefix: "./" is put in front of a path that is not absolute
ensurePathPrefix(path) == IF IsAbs(path) THEN path ELSE <<Dot>> \o path

\* the names a directory of the tree may hold, in the order os.ReadDir
\* lists them (sorted by name)
WalkNames ==
    << [name |-> <<".", "h", ".", "g", "n", "o">>, isDir |-> FALSE],
       [name |-> <<"a", ".", "g", "n", "o">>, isDir |-> FALSE],
       [name |-> <<"d">>, isDir |-> TRUE],
       [name |-> <<"e", ".", "g", "n", "o">>, isDir |-> TRUE],
       [name |-> <<"f", ".", "g", "n", "o">>, isDir |-> FALSE] >>

IsDirName(name) == \E i \in DOMAIN WalkNames : WalkNames[i].name = name /\ WalkNames[i].isDir

\* the elements of the root of the file system, none for "."
RootElems(fsys) == SelectSeq(fsys.root, NoDot)

\* whether the cleaned path c lies in the tree of fsys, the root included
InTree(fsys, c) ==
    /\ Len(c) >= Len(RootElems(fsys))
    /\ SubSeq(c, 1, Len(RootElems(fsys))) = RootElems(fsys)
    /\ \/ Len(c) = Len(RootElems(fsys))
       \/ SubSeq(c, Len(RootElems(fsys)) + 1, Len(c)) \in fsys.tree

\* the place of the cleaned path c below the root
RelOfClean(fsys, c) == SubSeq(c, Len(RootElems(fsys)) + 1, Len(c))

\* the place of path below the root
Rel(fsys, path) == RelOfClean(fsys, SelectSeq(path, NoDot))

\* whether path names a directory of fsys
IsDirectory(fsys, path) ==
    /\ InTree(fsys, SelectSeq(path, NoDot))
    /\ \/ Rel(fsys, path) = <<>>
       \/ IsDirName(Rel(fsys, path)[Len(Rel(fsys, path))])

\* whether the entry e of WalkNames exists in the directory at rel
HasEntry(fsys, rel, e) == Append(rel, e.name) \in fsys.tree

\* the entries of the directory at rel, sorted by name
EntriesAt(fsys, rel, i, acc) ==
    IF HasEntry(fsys, rel, WalkNames[i]) THEN Append(acc, WalkNames[i]) ELSE acc

RECURSIVE EntriesFrom(_, _, _, _)
EntriesFrom(fsys, rel, i, acc) ==
    IF i > Len(WalkNames) THEN acc
    ELSE EntriesFrom(fsys, rel, i + 1, EntriesAt(fsys, rel, i, acc))

\* os.ReadDir
ReadDir(fsys, path) ==
    IF ~IsDirectory(fsys, path) THEN [err |-> "not a directory", entries |-> <<>>]
    ELSE IF Rel(fsys, path) \in fsys.unreadable THEN [err |-> "permission denied", entries |-> <<>>]
    ELSE [err |-> "nil", entries |-> EntriesFrom(fsys, Rel(fsys, path), 1, <<>>)]

\* walkFn with the test of visited left out
walkFn_NoVisited(currPath, f, err, vis) ==
    IF err # "nil" THEN [ret |-> "walk dir", visited |-> vis, added |-> <<>>]
    ELSE IF f.isDir \/ ~IsGnoFile(f) THEN [ret |-> "nil", visited |-> vis, added |-> <<>>]
    ELSE [ret |-> "nil", visited |-> vis \cup {Dir(currPath)}, added |-> <<Dir(currPath)>>]

\* walkFn of walkDirForGnoDirs: what it returns, the visited map after it,
\* and the path it hands to addPath, if any
walkFn(currPath, f, err, vis) ==
    IF err # "nil" THEN [ret |-> "walk dir", visited |-> vis, added |-> <<>>]
    ELSE IF f.isDir \/ ~IsGnoFile(f) THEN [ret |-> "nil", visited |-> vis, added |-> <<>>]
    ELSE IF Dir(currPath) \in vis THEN [ret |-> "nil", visited |-> vis, added |-> <<>>]
    ELSE [ret |-> "nil", visited |-> vis \cup {Dir(currPath)}, added |-> <<Dir(currPath)>>]

\* the body of the loop of lines 39-44
addFile(dirPath, f, acc) ==
    IF IsGnoFile(f) THEN Append(acc, ensurePathPrefix(Join(dirPath, f.name))) ELSE acc

RECURSIVE addFilesFrom(_, _, _, _)
addFilesFrom(dirPath, files, i, acc) ==
    IF i > Len(files) THEN acc
    ELSE addFilesFrom(dirPath, files, i + 1, addFile(dirPath, files[i], acc))

\* lines 35-44 once dir is known
addFilesOf(fsys, dirPath, acc) ==
    IF ReadDir(fsys, dirPath).err # "nil" THEN acc
    ELSE addFilesFrom(dirPath, ReadDir(fsys, dirPath).entries, 1, acc)

\* the function GnoFilesFromArgsRecursively hands to walkDirForGnoDirs
addPath(fsys, path, acc) == addFilesOf(fsys, ensurePathPrefix(path), acc)

\* one visit filepath.WalkDir has yet to make
Visit(path, d, err) == [path |-> path, d |-> d, err |-> err]

ChildVisit(path, d) == Visit(Join(path, d.name), d, "nil")

\* filepath.WalkDir after fn(path, d, nil) returned nil on a directory: the
\* directory is read, and either fn is called again with the error or the
\* entries are walked in order before the rest
Descend(fsys, path, d, rd, rest) ==
    IF rd.err # "nil" THEN <<Visit(path, d, rd.err)>> \o rest
    ELSE [k \in 1..Len(rd.entries) |-> ChildVisit(path, rd.entries[k])] \o rest

\* filepath.WalkDir after one call of fn that returned r
walkNext(fsys, v, r, rest) ==
    IF r.ret # "nil" THEN [pending |-> <<>>, err |-> r.ret]
    ELSE IF v.err = "nil" /\ v.d.isDir
      THEN [pending |-> Descend(fsys, v.path, v.d, ReadDir(fsys, v.path), rest), err |-> "nil"]
    ELSE [pending |-> rest, err |-> "nil"]

\* the start of filepath.WalkDir(root, walkFn): Lstat of the root
walkStart(root) ==
    [pending |-> <<Visit(root, [name |-> root[Len(root)], isDir |-> TRUE], "nil")>>, err |-> "nil"]

NoFiles == [done |-> FALSE, paths |-> <<>>, err |-> "none"]

WalkIdle ==
    /\ fs = [root |-> <<Dot>>, tree |-> {}, unreadable |-> {}]
    /\ walk = [pending |-> <<>>, err |-> "nil"]
    /\ visited = {}
    /\ walkLog = <<>>
    /\ paths = <<>>
    /\ filesRet = NoFiles

\* ------------------------------------------------------------------------
\* gno mod download: the loop of execModDownload (lines 1198-1222)
\* Import paths are sequences of characters.
\* ------------------------------------------------------------------------
DQuote == "\""

\* strings.TrimSuffix
TrimSuffix(str, suf) ==
    IF HasSuffix(str, suf) THEN SubSeq(str, 1, Len(str) - Len(suf)) ELSE str

\* strings.TrimPrefix
TrimPrefix(str, pre) ==
    IF HasPrefix(str, pre) THEN SubSeq(str, Len(pre) + 1, Len(str)) ELSE str

\* strings.ContainsRune
ContainsRune(str, r) == \E k \in DOMAIN str : str[k] = r

\* whether the replace rule r applies to the coordinate m: on the exact
\* coordinate, or on the path alone for a rule without a version
ruleMatches(r, m, exact) ==
    /\ r.Old.Path = m.Path
    /\ IF exact THEN r.Old.Version = m.Version ELSE r.Old.Version = ""

\* the index of the first rule from i on that applies to m, 0 when none does
RECURSIVE firstRule(_, _, _, _)
firstRule(rules, m, exact, i) ==
    IF i > Len(rules) THEN 0
    ELSE IF ruleMatches(rules[i], m, exact) THEN i
    ELSE firstRule(rules, m, exact, i + 1)

\* the answer once the two searches are made
resolveWith(rules, m, ex, wild) ==
    IF ex # 0 THEN rules[ex].New
    ELSE IF wild # 0 THEN rules[wild].New
    ELSE m

\* (*File).Resolve: one look at the replace table, the exact coordinate
\* before the rule without a version before the coordinate itself; it
\* returns a coordinate and no error
Resolve(mod, m) ==
    resolveWith(mod.Replace, m, firstRule(mod.Replace, m, TRUE, 1), firstRule(mod.Replace, m, FALSE, 1))

\* gnomodfetch.FetchPackagesRecursively: the collaborator fails on the
\* paths of fails and succeeds on the others
FetchPackagesRecursively(fails, pkgPath) ==
    IF pkgPath \in fails THEN "fetch failed" ELSE "nil"

\* line 1205
importPkgPathOf(value) == TrimPrefix(TrimSuffix(value, <<DQuote>>), <<DQuote>>)

\* lines 1207-1220 for one import: what is handed to the collaborator, if
\* anything, and the error it returned
fetchImport(mod, fails, importPkgPath) ==
    IF ~ContainsRune(importPkgPath, ".") THEN [handed |-> <<>>, err |-> "nil"]
    ELSE [handed |-> <<[imp |-> importPkgPath, path |-> Resolve(mod, MV(importPkgPath, "")).Path]>>,
          err |-> FetchPackagesRecursively(fails, Resolve(mod, MV(importPkgPath, "")).Path)]

\* the place of the loops after import i of file f: the next import, or
\* the next file
afterImport(files, f, i) ==
    IF i < Len(files[f].imports) THEN [f |-> f, i |-> i + 1] ELSE [f |-> f + 1, i |-> 0]

NotReturned == [kind |-> "none"]

DownloadIdle ==
    /\ gnoMod = [Replace |-> <<>>]
    /\ gnoFiles = <<>>
    /\ fetchFails = {}
    /\ at = [f |-> 1, i |-> 0]
    /\ fetched = <<>>
    /\ dlRet = NotReturned

\* ------------------------------------------------------------------------
\* Import extraction: the directories and arguments explored
\* ------------------------------------------------------------------------
MaxEntries == 3

MaxWhyArgs == 2

ImpStd == <<"s", "t">>

ImpP1 == <<"p", ".", "p", "/", "1">>

ImpP2 == <<"p", ".", "p", "/", "2">>

ImpP == <<"p", ".", "p">>

ImportPaths == {ImpStd, ImpP1, ImpP2, ImpP}

\* the import declarations a file may hold, in declaration order
ImportLists == {<<>>, <<ImpStd, ImpP1>>, <<ImpP2, ImpP1, ImpP2>>, <<ImpP>>}

\* the names a directory may hold, in the order os.ReadDir lists them
\* (sorted by name); isDir tells a subdirectory from a file
EntryNames ==
    << [name |-> <<".", "h", ".", "g", "n", "o">>, isDir |-> FALSE],
       [name |-> <<"a", ".", "g", "n", "o">>, isDir |-> FALSE],
       [name |-> <<"a", "_", "t", "e", "s", "t", ".", "g", "n", "o">>, isDir |-> FALSE],
       [name |-> <<"b", ".", "g", "o">>, isDir |-> FALSE],
       [name |-> <<"d", ".", "g", "n", "o">>, isDir |-> TRUE],
       [name |-> <<"s", "u", "b">>, isDir |-> TRUE],
       [name |-> <<"z", "_", "f", "i", "l", "e", "t", "e", "s", "t", ".", "g", "n", "o">>, isDir |-> FALSE] >>

\* the entries picked by the set S of indices, in order; imports of a
\* subdirectory are those of the files inside it
RECURSIVE EntriesOf(_, _, _)
EntriesOf(S, imp, i) ==
    IF i > Len(EntryNames) THEN <<>>
    ELSE (IF i \in S
            THEN <<[name |-> EntryNames[i].name, isDir |-> EntryNames[i].isDir, imports |-> imp[i]]>>
            ELSE <<>>)
         \o EntriesOf(S, imp, i + 1)

\* the import lists entry i may hold: only a file named *.gno has imports
ImportListsOf(i) ==
    IF ~EntryNames[i].isDir /\ HasSuffix(EntryNames[i].name, DotGno) THEN ImportLists ELSE {<<>>}

\* the directories of at most n entries
Directories(n) ==
    UNION {{EntriesOf(S, imp, 1) : imp \in {f \in [S -> ImportLists] : \A i \in S : f[i] \in ImportListsOf(i)}} :
              S \in {T \in SUBSET DOMAIN EntryNames : Cardinality(T) <= n}}

ModulePath == "m"

LoadIdle ==
    /\ dir = <<>>
    /\ pkgImports = [called |-> FALSE, imports |-> <<>>]
    /\ whyArgs = <<>>
    /\ whyOut = [err |-> "none", out |-> <<>>]
    /\ whyMap = [err |-> "none", m |-> <<>>]

InitLoad ==
    /\ EditIdle
    /\ ParseIdle
    /\ WalkIdle
    /\ DownloadIdle
    /\ dir \in Directories(MaxEntries)
    /\ pkgImports = [called |-> FALSE, imports |-> <<>>]
    /\ whyArgs = <<>>
    /\ whyOut = [err |-> "none", out |-> <<>>]
    /\ whyMap = [err |-> "none", m |-> <<>>]

CallGetGnoPackageImports ==
    /\ ~pkgImports.called
    /\ pkgImports' = [called |-> TRUE, imports |-> GetGnoPackageImports(dir)]
    /\ UNCHANGED <<dir, whyArgs, whyOut, whyMap>>
    /\ UNCHANGED editVars
    /\ UNCHANGED parseVars
    /\ UNCHANGED walkVars
    /\ UNCHANGED downloadVars

CallModWhy(args) ==
    /\ whyOut.err = "none"
    /\ whyArgs' = args
    /\ whyOut' = execModWhy(ModulePath, args, dir)
    /\ whyMap' = getImportToFilesMap(dir)
    /\ UNCHANGED <<dir, pkgImports>>
    /\ UNCHANGED editVars
    /\ UNCHANGED parseVars
    /\ UNCHANGED walkVars
    /\ UNCHANGED downloadVars

NextLoad ==
    \/ CallGetGnoPackageImports
    \/ \E n \in 1..MaxWhyArgs : \E args \in [1..n -> ImportPaths] : CallModWhy(args)

SpecLoad == InitLoad /\ [][NextLoad]_vars

\* ------------------------------------------------------------------------
\* Manifest editor: the edit session
\* ------------------------------------------------------------------------
InitEdit ==
    /\ LoadIdle
    /\ ParseIdle
    /\ WalkIdle
    /\ DownloadIdle
    /\ \E m \in InitialManifests :
        /\ syntax = m.syntax
        /\ heap = m.heap
        /\ replace = m.replace
        /\ ret = "none"
        /\ preState = m
        /\ lastArgs = NoArgs
        /\ repeated = FALSE
        /\ ncalls = 0
        /\ initDistinct = DistinctOlds(m.replace)

AddReplace(oldPath, oldVers, newPath, newVers) ==
    /\ ncalls < MaxCalls
    /\ ret # "panic"
    /\ LET args == [oldPath |-> oldPath, oldVers |-> oldVers, newPath |-> newPath, newVers |-> newVers]
           res == addReplace(syntax, heap, replace, oldPath, oldVers, newPath, newVers)
       IN /\ syntax' = res.syntax
          /\ heap' = res.heap
          /\ replace' = res.replace
          /\ ret' = res.ret
          /\ preState' = [syntax |-> syntax, heap |-> heap, replace |-> replace]
          /\ repeated' = (lastArgs = args)
          /\ lastArgs' = args
    /\ ncalls' = ncalls + 1
    /\ UNCHANGED initDistinct
    /\ UNCHANGED loadVars
    /\ UNCHANGED parseVars
    /\ UNCHANGED walkVars
    /\ UNCHANGED downloadVars

NextEdit ==
    \E op \in OldPaths, ov \in OldVersions, nc \in NewCoords :
        AddReplace(op, ov, nc.Path, nc.Version)

SpecEdit == InitEdit /\ [][NextEdit]_vars

\* ------------------------------------------------------------------------
\* parseReplace called on an argument list
\* ------------------------------------------------------------------------
MaxArgs == 5

\* the tokens of a replace line: paths, a directory, versions, the arrow, a
\* string left open
ArgTokens == {"p", "p/v1", "=>", "v1.0.0", "v2.0.0", "./d", "\"x"}

\* the lines of the file a directive can be decoded from
ReplaceLines == {1, 2}

InitReplace ==
    /\ EditIdle
    /\ LoadIdle
    /\ WalkIdle
    /\ DownloadIdle
    /\ data = <<>>
    /\ parsed = NotParsed
    /\ LexIdle
    /\ replArgs = <<>>
    /\ replRet = NotDecoded

\* the tokens of a line after its verb are collected one by one into args
AddArg(t) ==
    /\ ~replRet.done
    /\ Len(replArgs) < MaxArgs
    /\ replArgs' = Append(replArgs, t)
    /\ UNCHANGED <<data, parsed, lexer, lexOp, lexPrev, replRet>>
    /\ UNCHANGED editVars
    /\ UNCHANGED loadVars
    /\ UNCHANGED walkVars
    /\ UNCHANGED downloadVars

\* r, err := parseReplace(filename, line, "replace", args)
ParseReplace(line) ==
    /\ ~replRet.done
    /\ replRet' = [done |-> TRUE, entry |-> parseReplace(line, replArgs).entry,
                   err |-> parseReplace(line, replArgs).err, line |-> line]
    /\ UNCHANGED <<data, parsed, lexer, lexOp, lexPrev, replArgs>>
    /\ UNCHANGED editVars
    /\ UNCHANGED loadVars
    /\ UNCHANGED walkVars
    /\ UNCHANGED downloadVars

NextReplace ==
    \/ \E t \in ArgTokens : AddArg(t)
    \/ \E line \in ReplaceLines : ParseReplace(line)

SpecReplace == InitReplace /\ [][NextReplace]_vars

\* ------------------------------------------------------------------------
\* Manifest editor: addLine and markLineAsRemoved called on a tree
\* ------------------------------------------------------------------------
MaxTreeCalls == 2

\* the token lists a caller passes: keyword, then arguments
AddTokens == {<<"replace", "r", "=>", "n", "v1.0.0">>, <<"require", "y", "v1.0.0">>,
              <<"exclude", "z", "v1.0.0">>}

BlockIds(x) == {x.Stmt[k].id : k \in {i \in DOMAIN x.Stmt : x.Stmt[i].type = "LineBlock"}}

\* the hints a caller can hold: none, a line of the tree, a block of the tree
Hints(x, h) ==
    {NilExpr} \cup {LineExpr(id) : id \in DOMAIN h} \cup {BlockExpr(b) : b \in BlockIds(x)}

TreeArgs(op, hint, tokens, line) == [op |-> op, hint |-> hint, tokens |-> tokens, line |-> line]

InitAddLine == InitEdit

AddLine(hint, tokens) ==
    /\ ncalls < MaxTreeCalls
    /\ LET res == addLine(syntax, heap, hint, tokens)
       IN /\ syntax' = res.syntax
          /\ heap' = res.heap
          /\ lastArgs' = TreeArgs("addLine", hint, tokens, res.line)
    /\ preState' = [syntax |-> syntax, heap |-> heap, replace |-> replace]
    /\ ret' = "nil"
    /\ ncalls' = ncalls + 1
    /\ UNCHANGED <<replace, repeated, initDistinct>>
    /\ UNCHANGED loadVars
    /\ UNCHANGED parseVars
    /\ UNCHANGED walkVars
    /\ UNCHANGED downloadVars

MarkLineAsRemoved(line) ==
    /\ ncalls < MaxTreeCalls
    /\ heap' = markLineAsRemoved(heap, line)
    /\ lastArgs' = TreeArgs("markLineAsRemoved", NilExpr, <<>>, line)
    /\ preState' = [syntax |-> syntax, heap |-> heap, replace |-> replace]
    /\ ret' = "nil"
    /\ ncalls' = ncalls + 1
    /\ UNCHANGED <<syntax, replace, repeated, initDistinct>>
    /\ UNCHANGED loadVars
    /\ UNCHANGED parseVars
    /\ UNCHANGED walkVars
    /\ UNCHANGED downloadVars

NextAddLine ==
    \/ \E hint \in Hints(syntax, heap), tokens \in AddTokens : AddLine(hint, tokens)
    \/ \E line \in DOMAIN heap : MarkLineAsRemoved(line)

SpecAddLine == InitAddLine /\ [][NextAddLine]_vars

\* ------------------------------------------------------------------------
\* Parser: the parse run
\* ------------------------------------------------------------------------
InitParse ==
    /\ EditIdle
    /\ LoadIdle
    /\ WalkIdle
    /\ DownloadIdle
    /\ data \in Documents(MaxLines)
    /\ parsed = NotParsed
    /\ LexIdle
    /\ DecodeIdle

\* f, err := parse("gno.mod", data)
Parse ==
    /\ ~parsed.done
    /\ LET r == parse(data) IN
       parsed' = [done |-> TRUE, f |-> r.f, err |-> r.err, lexed |-> r.lexed]
    /\ UNCHANGED <<data, lexer, lexOp, lexPrev, replArgs, replRet>>
    /\ UNCHANGED editVars
    /\ UNCHANGED loadVars
    /\ UNCHANGED walkVars
    /\ UNCHANGED downloadVars

NextParse == Parse

SpecParse == InitParse /\ [][NextParse]_vars

\* ------------------------------------------------------------------------
\* Parser: the parse run on documents of statements with parentheses
\* ------------------------------------------------------------------------
MaxStmtLines == 3

\* the lines of these documents: tokens with one space between them
StmtTemplates ==
    { <<"a", " ", "b">>,
      <<"a", " ", "(">>,
      <<"a", " ", "b", " ", "(">>,
      <<"a", " ", "(", " ", ")">>,
      <<"a", " ", "(", " ", ")", " ", "b">>,
      <<"a", " ", "(", " ", "b">>,
      <<"a", " ", "(", " ", "/", "/", "c">>,
      <<"b", " ", "/", "/", "d">>,
      <<")", " ", "/", "/", "e">>,
      <<"(">>,
      <<")">> }

RECURSIVE StmtDocsOf(_)
StmtDocsOf(n) ==
    IF n = 1 THEN StmtTemplates
    ELSE {l \o <<"\n">> \o d : l \in StmtTemplates, d \in StmtDocsOf(n - 1)}

StmtDocuments(n) == UNION {StmtDocsOf(k) : k \in 1..n}

InitParseStmt ==
    /\ EditIdle
    /\ LoadIdle
    /\ WalkIdle
    /\ DownloadIdle
    /\ data \in StmtDocuments(MaxStmtLines)
    /\ parsed = NotParsed
    /\ LexIdle
    /\ DecodeIdle

SpecParseStmt == InitParseStmt /\ [][NextParse]_vars

\* ------------------------------------------------------------------------
\* Lexer: an input driven call by call, and parsed
\* ------------------------------------------------------------------------
MaxBytes == 3

\* readToken is not called again once it has yielded this many EOF tokens
MaxEOFTokens == 2

LexBytes == {"a", " ", "\n", "/", "(", "\"", LeadByte, ContByte}

RECURSIVE ByteStringsOf(_)
ByteStringsOf(n) ==
    IF n = 0 THEN {<<>>}
    ELSE {Append(b, c) : b \in ByteStringsOf(n - 1), c \in LexBytes}

ByteStrings(n) == UNION {ByteStringsOf(k) : k \in 0..n}

EOFTokens(in) == Len(SelectSeq(in.lexed, LAMBDA kind : kind = "EOF"))

InitLex ==
    /\ EditIdle
    /\ LoadIdle
    /\ WalkIdle
    /\ DownloadIdle
    /\ DecodeIdle
    /\ data \in ByteStrings(MaxBytes)
    /\ parsed = NotParsed
    /\ lexer = newInput(data)
    /\ lexOp = "none"
    /\ lexPrev = NoLexCall

\* in.readRune()
ReadRune ==
    /\ ~lexer.panicking
    /\ lexer' = readRune(lexer)
    /\ lexOp' = "readRune"
    /\ lexPrev' = [off |-> lexer.off, kind |-> lexer.token.kind]
    /\ UNCHANGED <<data, parsed, replArgs, replRet>>
    /\ UNCHANGED editVars
    /\ UNCHANGED loadVars
    /\ UNCHANGED walkVars
    /\ UNCHANGED downloadVars

\* in.readToken()
ReadToken ==
    /\ ~lexer.panicking
    /\ EOFTokens(lexer) < MaxEOFTokens
    /\ lexer' = readToken(lexer)
    /\ lexOp' = "readToken"
    /\ lexPrev' = [off |-> lexer.off, kind |-> lexer.token.kind]
    /\ UNCHANGED <<data, parsed, replArgs, replRet>>
    /\ UNCHANGED editVars
    /\ UNCHANGED loadVars
    /\ UNCHANGED walkVars
    /\ UNCHANGED downloadVars

NextLex ==
    \/ ReadRune
    \/ ReadToken
    \/ Parse

SpecLex == InitLex /\ [][NextLex]_vars

\* ------------------------------------------------------------------------
\* Recursive file collection: the run on one root directory
\* ------------------------------------------------------------------------
MaxNodes == 4

MaxDepth == 3

NodeNames == {WalkNames[i].name : i \in DOMAIN WalkNames}

\* the directories of the tree T that may take one more entry, the root included
OpenDirs(T, depth) ==
    {<<>>} \cup {t \in T : IsDirName(t[Len(t)]) /\ Len(t) < depth}

\* the trees got from T by one more entry
Grown(T, depth) ==
    {T \cup {Append(q, nm)} : q \in OpenDirs(T, depth), nm \in NodeNames}

\* the trees of at most n entries, none deeper than depth
RECURSIVE Trees(_, _)
Trees(n, depth) ==
    IF n = 0 THEN {{}}
    ELSE UNION {Grown(T, depth) : T \in Trees(n - 1, depth)}

Roots == {<<Dot>>, <<<<"r">>>>, <<Slash, <<"r">>>>}

DirsOf(T) == {<<>>} \cup {t \in T : IsDirName(t[Len(t)])}

\* the file systems explored: a root, a tree below it, and at most one
\* directory that cannot be read
FileSystems(n, depth) ==
    UNION {{[root |-> r, tree |-> T, unreadable |-> U] :
               r \in Roots, U \in {{}} \cup {{d} : d \in DirsOf(T)}} :
           T \in Trees(n, depth)}

\* GnoFilesFromArgsRecursively([root]) up to the call of filepath.WalkDir:
\* the root exists and is a directory
InitWalk ==
    /\ EditIdle
    /\ LoadIdle
    /\ ParseIdle
    /\ DownloadIdle
    /\ fs \in FileSystems(MaxNodes, MaxDepth)
    /\ walk = walkStart(fs.root)
    /\ visited = {}
    /\ walkLog = <<>>
    /\ paths = <<>>
    /\ filesRet = NoFiles

\* one call of walkFn by filepath.WalkDir, addPath included
WalkFn ==
    /\ ~filesRet.done
    /\ walk.pending # <<>>
    /\ LET v == Head(walk.pending)
           r == walkFn(v.path, v.d, v.err, visited)
       IN /\ visited' = r.visited
          /\ paths' = IF r.added = <<>> THEN paths ELSE addPath(fs, r.added[1], paths)
          /\ walkLog' = Append(walkLog, [path |-> v.path, added |-> r.added])
          /\ walk' = walkNext(fs, v, r, Tail(walk.pending))
    /\ UNCHANGED <<fs, filesRet>>
    /\ UNCHANGED editVars
    /\ UNCHANGED loadVars
    /\ UNCHANGED parseVars
    /\ UNCHANGED downloadVars

\* filepath.WalkDir returned: lines 46-48 and 52
ReturnFiles ==
    /\ ~filesRet.done
    /\ walk.pending = <<>>
    /\ filesRet' = IF walk.err # "nil"
                     THEN [done |-> TRUE, paths |-> <<>>, err |-> "unable to walk dir"]
                     ELSE [done |-> TRUE, paths |-> paths, err |-> "nil"]
    /\ UNCHANGED <<fs, walk, visited, walkLog, paths>>
    /\ UNCHANGED editVars
    /\ UNCHANGED loadVars
    /\ UNCHANGED parseVars
    /\ UNCHANGED downloadVars

NextWalk ==
    \/ WalkFn
    \/ ReturnFiles

SpecWalk == InitWalk /\ [][NextWalk]_vars

\* ------------------------------------------------------------------------
\* gno mod download: the run
\* ------------------------------------------------------------------------
MaxFiles == 2

MaxImports == 2

MaxReplaces == 2

LocalDir == <<".", ".", "/", "l">>

\* imp.Path.Value: the import path between double quotes
Quoted(path) == <<DQuote>> \o path \o <<DQuote>>

DownloadImports == {Quoted(ImpStd), Quoted(ImpP1), Quoted(ImpP2)}

\* the import declarations of one file
DownloadImportLists(n) == UNION {[1..k -> DownloadImports] : k \in 0..n}

\* a file ParseFile rejects has no imports to show
SourceFiles(n) ==
    {[ok |-> FALSE, imports |-> <<>>]} \cup
    {[ok |-> TRUE, imports |-> l] : l \in DownloadImportLists(n)}

SourceFileLists(n, k) == UNION {[1..j -> SourceFiles(k)] : j \in 0..n}

\* replace rules: ImpP1 => ImpP2, ImpP2 => ImpP1, and ImpP1 => a local directory
ReplaceRules ==
    { [Old |-> MV(ImpP1, ""), New |-> MV(ImpP2, "v1")],
      [Old |-> MV(ImpP2, ""), New |-> MV(ImpP1, "v1")],
      [Old |-> MV(ImpP1, ""), New |-> MV(LocalDir, "")] }

\* the replace tables of a valid manifest: no two rules for one coordinate
ReplaceTables(n) ==
    UNION {{t \in [1..k -> ReplaceRules] : \A a, b \in 1..k : t[a].Old = t[b].Old => a = b} :
              k \in 0..n}

\* execModDownload up to the loop: the manifest is read and valid, the
\* source files are listed
InitDownload ==
    /\ EditIdle
    /\ LoadIdle
    /\ ParseIdle
    /\ WalkIdle
    /\ gnoMod \in {[Replace |-> t] : t \in ReplaceTables(MaxReplaces)}
    /\ gnoFiles \in SourceFileLists(MaxFiles, MaxImports)
    /\ fetchFails \in {{}, {ImpP1}, {ImpP2}, {LocalDir}}
    /\ at = [f |-> 1, i |-> 0]
    /\ fetched = <<>>
    /\ dlRet = NotReturned

\* lines 1198-1203: the next file is parsed; a file that fails is passed over
ParseFile ==
    /\ dlRet = NotReturned
    /\ at.f <= Len(gnoFiles)
    /\ at.i = 0
    /\ at' = IF gnoFiles[at.f].ok THEN afterImport(gnoFiles, at.f, 0)
              ELSE [f |-> at.f + 1, i |-> 0]
    /\ UNCHANGED <<gnoMod, gnoFiles, fetchFails, fetched, dlRet>>
    /\ UNCHANGED editVars
    /\ UNCHANGED loadVars
    /\ UNCHANGED parseVars
    /\ UNCHANGED walkVars

\* lines 1204-1221: one import of the file
FetchImport ==
    /\ dlRet = NotReturned
    /\ at.f <= Len(gnoFiles)
    /\ at.i >= 1
    /\ LET r == fetchImport(gnoMod, fetchFails, importPkgPathOf(gnoFiles[at.f].imports[at.i]))
       IN /\ fetched' = fetched \o r.handed
          /\ dlRet' = IF r.err # "nil" THEN [kind |-> "fetch", cause |-> r.err] ELSE dlRet
    /\ at' = afterImport(gnoFiles, at.f, at.i)
    /\ UNCHANGED <<gnoMod, gnoFiles, fetchFails>>
    /\ UNCHANGED editVars
    /\ UNCHANGED loadVars
    /\ UNCHANGED parseVars
    /\ UNCHANGED walkVars

\* line 1224
ReturnNil ==
    /\ dlRet = NotReturned
    /\ at.f > Len(gnoFiles)
    /\ dlRet' = [kind |-> "nil"]
    /\ UNCHANGED <<gnoMod, gnoFiles, fetchFails, at, fetched>>
    /\ UNCHANGED editVars
    /\ UNCHANGED loadVars
    /\ UNCHANGED parseVars
    /\ UNCHANGED walkVars

NextDownload ==
    \/ ParseFile
    \/ FetchImport
    \/ ReturnNil

SpecDownload == InitDownload /\ [][NextDownload]_vars

\* ------------------------------------------------------------------------
\* Claims on addReplace
\* ------------------------------------------------------------------------
CallDone == ncalls > 0 /\ ret = "nil"

PreLive == LiveEntries(preState.replace)

\* C2: after two addReplace calls in a row with identical arguments there is
\* exactly one live replace entry matching old (same path, and same version
\* when a version is given).
C2_AddReplaceIdempotent ==
    (CallDone /\ repeated) =>
        Cardinality(LiveMatching(replace, lastArgs.oldPath, lastArgs.oldVers)) = 1

\* a repeated call has happened on a manifest that held several entries for the path
C2_Witness ==
    /\ CallDone /\ repeated
    /\ Cardinality({i \in DOMAIN replace : ~IsLive(replace[i])}) >= 1
    /\ Cardinality(LiveMatching(replace, lastArgs.oldPath, lastArgs.oldVers)) = 1

\* the case C3 is about: the manifest held a wildcard entry for P and
\* addReplace(P, v2, ...) was called with a non-empty v2
SupersessionCase ==
    /\ CallDone
    /\ lastArgs.oldVers # ""
    /\ \E i \in PreLive : preState.replace[i].Old = MV(lastArgs.oldPath, "")

\* C3 as stated: in the supersession case there is exactly one live entry for
\* (P, v2) afterwards and every other entry that existed for path P is removed.
C3_SupersessionAsStated ==
    SupersessionCase =>
        /\ Cardinality(LiveExactly(replace, lastArgs.oldPath, lastArgs.oldVers)) = 1
        /\ \A i \in PreLive :
              (preState.replace[i].Old.Path = lastArgs.oldPath
                 /\ i \notin LiveExactly(replace, lastArgs.oldPath, lastArgs.oldVers))
              => (replace[i] = ZeroReplace /\ heap[preState.replace[i].Syntax].Token = <<>>)

\* C3 amended: in the supersession case there is exactly one live entry for
\* (P, v2) afterwards; every other pre-existing entry whose old is exactly
\* (P, v2) is removed and its line cleared; the pre-existing entries for P
\* with another old version, the wildcard included, stay live and unchanged
\* and their lines keep their arguments.
C3_Supersession ==
    SupersessionCase =>
        /\ Cardinality(LiveExactly(replace, lastArgs.oldPath, lastArgs.oldVers)) = 1
        /\ \A i \in PreLive :
              LET r == preState.replace[i] IN
              /\ (r.Old = MV(lastArgs.oldPath, lastArgs.oldVers)
                    /\ i \notin LiveExactly(replace, lastArgs.oldPath, lastArgs.oldVers))
                 => (replace[i] = ZeroReplace /\ heap[r.Syntax].Token = <<>>)
              /\ (r.Old.Path = lastArgs.oldPath /\ r.Old.Version # lastArgs.oldVers)
                 => (replace[i] = r /\ lineArgs(heap[r.Syntax]) = lineArgs(preState.heap[r.Syntax]))

\* a supersession call that also removed a duplicate of (P, v2)
C3_Witness ==
    /\ SupersessionCase
    /\ \E i \in PreLive : replace[i] = ZeroReplace
    /\ \E i \in PreLive : replace[i].Old = MV(lastArgs.oldPath, "")

\* C4: starting from live entries with pairwise distinct old (path, version),
\* no sequence of addReplace calls makes two live entries share an old
\* (path, version).
C4_DistinctOlds ==
    (initDistinct /\ ret # "panic") => DistinctOlds(replace)

\* two calls have been made from such a manifest and entries for one path coexist
C4_Witness ==
    /\ initDistinct /\ ncalls >= 2 /\ ret = "nil"
    /\ \E i, j \in LiveEntries(replace) : i # j /\ replace[i].Old.Path = replace[j].Old.Path
    /\ Len(replace) > Len(preState.replace)

\* C5: an addReplace call given a malformed old or new version returns an
\* error and leaves the syntax tree and the entry list as they were.
C5_AllOrNothing ==
    (ncalls > 0 /\ (Malformed(lastArgs.oldVers) \/ Malformed(lastArgs.newVers))) =>
        /\ ret = "error"
        /\ syntax = preState.syntax
        /\ heap = preState.heap
        /\ replace = preState.replace

\* C6: every live replace entry's old and new coordinates are the ones its
\* line's tokens encode, and every line no live entry references any more
\* (the line of a removed entry) has an empty token list.
ReplaceLinesOf(x, h) ==
    {l \in DOMAIN h :
        /\ h[l].Token # <<>>
        /\ \E k \in DOMAIN x.Stmt :
              \/ x.Stmt[k].type = "Line" /\ x.Stmt[k].id = l /\ h[l].Token[1] = "replace"
              \/ /\ x.Stmt[k].type = "LineBlock" /\ x.Stmt[k].Token[1] = "replace"
                 /\ \E j \in DOMAIN x.Stmt[k].Line : x.Stmt[k].Line[j] = l}

C6_ModelTreeConsistent ==
    ret # "panic" =>
        /\ \A i \in LiveEntries(replace) :
              /\ heap[replace[i].Syntax].Token # <<>>
              /\ lineCoords(heap[replace[i].Syntax]) = [Old |-> replace[i].Old, New |-> replace[i].New]
        /\ \A l \in ReplaceLinesOf(syntax, heap) :
              \E i \in LiveEntries(replace) : replace[i].Syntax = l

\* ------------------------------------------------------------------------
\* Claims on import extraction and mod why
\* ------------------------------------------------------------------------
Elems(seq) == {seq[k] : k \in DOMAIN seq}

\* an immediate, non-hidden .gno file that is not a file test
IsPackageSource(e) ==
    /\ ~e.isDir
    /\ e.name[1] # "."
    /\ HasSuffix(e.name, DotGno)
    /\ ~HasSuffix(e.name, FiletestGno)

DeclaredImports(entries) ==
    UNION {Elems(e.imports) : e \in {f \in Elems(entries) : IsPackageSource(f)}}

RECURSIVE SplitStanzas(_, _)
SplitStanzas(lines, cur) ==
    IF lines = <<>> THEN <<cur>>
    ELSE IF Head(lines) = BlankLine THEN <<cur>> \o SplitStanzas(Tail(lines), <<>>)
    ELSE SplitStanzas(Tail(lines), Append(cur, Head(lines)))

\* the files of the package that import arg
Importers(entries, arg) ==
    {e.name : e \in {f \in Elems(entries) :
                        /\ Ext(f.name) = DotGno
                        /\ ~HasSuffix(f.name, FiletestGno)
                        /\ arg \in Elems(f.imports)}}

RECURSIVE ImportingFiles(_, _, _, _)
ImportingFiles(entries, imp, Keep(_), i) ==
    IF i > Len(entries) THEN <<>>
    ELSE (IF Keep(entries[i]) /\ imp \in Elems(entries[i].imports)
            THEN <<entries[i].name>> ELSE <<>>)
         \o ImportingFiles(entries, imp, Keep, i + 1)

\* the file list the map holds for imp, empty when imp is not a key
FilesOf(m, imp) == IF imp \in DOMAIN m THEN m[imp] ELSE <<>>

\* an entry named *.gno and not *_filetest.gno, hidden or not
IsWhySource(e) ==
    /\ Ext(e.name) = DotGno
    /\ ~HasSuffix(e.name, FiletestGno)

ParsedOk == parsed.done /\ parsed.err = <<>>

RECURSIVE Flatten(_)
Flatten(lists) == IF lists = <<>> THEN <<>> ELSE Head(lists) \o Flatten(Tail(lists))

\* the comments held by one statement and by the nodes below it
StmtComments(x) ==
    IF x.type = "LineBlock"
      THEN x.Before \o x.Suffix \o x.LParen.Before \o x.LParen.Suffix
             \o Flatten([j \in 1..Len(x.Line) |-> x.Line[j].Before \o x.Line[j].Suffix])
             \o x.RParen.Before \o x.RParen.Suffix
      ELSE x.Before \o x.Suffix

\* every comment of the tree: the file's lists and those of all nodes
TreeComments(f) ==
    f.Before \o f.Suffix \o f.After \o Flatten([i \in 1..Len(f.Stmt) |-> StmtComments(f.Stmt[i])])

\* the comments a block keeps in front of its lines and of its closing paren
BlockBefore(f) ==
    Flatten([i \in 1..Len(f.Stmt) |->
        IF f.Stmt[i].type = "LineBlock"
          THEN Flatten([j \in 1..Len(f.Stmt[i].Line) |-> f.Stmt[i].Line[j].Before])
                 \o f.Stmt[i].RParen.Before
          ELSE <<>>])

IsPlaceholder(c) == c.Token = <<>>

Count(list, Test(_)) == Len(SelectSeq(list, Test))

\* the number of comment tokens the lexer produced
LexedComments == Count(parsed.lexed, isComment)

\* C7 as stated: after a successful parse the lexer has produced as many
\* comments as the tree holds in all its before, suffix and after lists.
C7_ConservationAsStated ==
    ParsedOk => Len(TreeComments(parsed.f)) = LexedComments

\* C7: after a successful parse the comments of the tree that carry text are
\* as many as the comments the lexer produced and start at pairwise different
\* bytes; the comments without text are the placeholders of blank lines, and
\* they sit only in front of a block's lines and closing paren.
C7_Conservation ==
    ParsedOk =>
        LET all == TreeComments(parsed.f)
            real == SelectSeq(all, LAMBDA c : ~IsPlaceholder(c))
        IN /\ Len(real) = LexedComments
           /\ \A i, j \in 1..Len(real) : real[i].Start.Byte = real[j].Start.Byte => i = j
           /\ Count(all, IsPlaceholder) = Count(BlockBefore(parsed.f), IsPlaceholder)
           /\ \A i \in 1..Len(all) : IsPlaceholder(all[i]) => all[i] = ZeroComment

\* a parsed block that holds a comment of the input and a blank-line placeholder
C7_Witness ==
    /\ ParsedOk
    /\ LexedComments > 0
    /\ Count(TreeComments(parsed.f), IsPlaceholder) > 0

\* C8: parse returns either a tree and no error, or no tree and a list of at
\* least one error; an Error raised in the lexer or the parser ends as the
\* second outcome.
C8_ParseBoundary ==
    parsed.done =>
        \/ ~parsed.f.nil /\ parsed.err = <<>>
        \/ parsed.f.nil /\ Len(parsed.err) > 0

\* a parse that Error has ended, inside a block already under construction
C8_Witness ==
    /\ parsed.done
    /\ parsed.f.nil
    /\ Len(parsed.err) = 1
    /\ "(" \in Elems(parsed.lexed)

\* the same bytes with every space turned into a tab
Retab(bytes) == [k \in 1..Len(bytes) |-> IF bytes[k] = " " THEN "\t" ELSE bytes[k]]

\* documents that differ from bytes in their layout only
LayoutVariants(bytes) == {Retab(bytes), bytes \o <<"\n">>}

\* C1: the tree of a well-formed document is the tree of that document only,
\* as it must be if serializing the unedited tree is to yield the document
\* for every one of them.
C1_RoundTripDeterminesDocument ==
    ParsedOk =>
        \A other \in LayoutVariants(data) : parse(other).f = parsed.f => other = data

\* ------------------------------------------------------------------------
\* Claims on the lexer and on blocks
\* ------------------------------------------------------------------------
\* the lines of a document: what lies between its newlines
RECURSIVE SplitLines(_)
SplitLines(bytes) ==
    IF \A k \in 1..Len(bytes) : bytes[k] # "\n" THEN <<bytes>>
    ELSE LET k == CHOOSE k \in 1..Len(bytes) :
                      bytes[k] = "\n" /\ \A j \in 1..(k - 1) : bytes[j] # "\n"
         IN <<SubSeq(bytes, 1, k - 1)>> \o SplitLines(SubSeq(bytes, k + 1, Len(bytes)))

\* the byte offset at which line n of the lines begins
RECURSIVE LineStart(_, _)
LineStart(lines, n) == IF n = 1 THEN 0 ELSE LineStart(lines, n - 1) + Len(lines[n - 1]) + 1

\* the lines with a malformed token: a string left open, a block comment at
\* the start of a token or inside an identifier
StringLeftOpen == <<"\"", "s">>

BlockCommentAtStart == <<"/", "*">>

BlockCommentInIdent == <<"a", "/", "*">>

MalformedLines(lines) ==
    {n \in 1..Len(lines) : lines[n] \in {StringLeftOpen, BlockCommentAtStart, BlockCommentInIdent}}

Min(S) == CHOOSE n \in S : \A m \in S : n <= m

OpenLine == <<"a", " ", "(">>

CloseLine == <<")">>

CommentLine == <<"\t", "/", "/", "c">>

ScanLine(st, l) ==
    IF ~st.inBlock
      THEN IF l = OpenLine THEN [st EXCEPT !.inBlock = TRUE, !.prev = "open"] ELSE st
    ELSE IF l = CloseLine THEN [st EXCEPT !.inBlock = FALSE]
    ELSE IF l = <<>>
      THEN [st EXCEPT !.blanks = @ + 1,
                      !.kept = IF st.prev \in {"line", "comment"} THEN @ + 1 ELSE @,
                      !.prev = IF st.prev = "open" THEN "open" ELSE "blank"]
    ELSE IF l = CommentLine THEN [st EXCEPT !.prev = "comment"]
    ELSE [st EXCEPT !.prev = "line"]

RECURSIVE ScanLines(_, _, _)
ScanLines(st, lines, i) ==
    IF i > Len(lines) THEN st ELSE ScanLines(ScanLine(st, lines[i]), lines, i + 1)

BlankLinesInBlocks ==
    ScanLines([inBlock |-> FALSE, prev |-> "open", blanks |-> 0, kept |-> 0], SplitLines(data), 1)

Placeholders == Count(BlockBefore(parsed.f), IsPlaceholder)

NonSpaceBefore(bytes, k) ==
    \E j \in 1..k :
        /\ bytes[j] \notin SpaceRunes
        /\ \A i \in j..k : bytes[i] # "\n"

MalformedPos(lines, n) ==
    CASE lines[n] = BlockCommentAtStart ->
            [Line |-> n, LineRune |-> 1, Byte |-> LineStart(lines, n)]
      [] lines[n] = BlockCommentInIdent ->
            [Line |-> n, LineRune |-> 2, Byte |-> LineStart(lines, n) + 1]
      [] lines[n] = StringLeftOpen /\ n < Len(lines) ->
            [Line |-> n, LineRune |-> 3, Byte |-> LineStart(lines, n) + 2]
      [] lines[n] = StringLeftOpen /\ n = Len(lines) ->
            [Line |-> n, LineRune |-> 1, Byte |-> LineStart(lines, n)]

PathOf(rel) == Clean(fs.root \o rel)

\* the entry at rel is a qualifying source file: not hidden, *.gno, no directory
Qualifying(rel) ==
    /\ rel \in fs.tree
    /\ IsGnoFile([name |-> rel[Len(rel)], isDir |-> IsDirName(rel[Len(rel)])])

\* the qualifying files directly inside the directory at rel
QualifyingIn(rel) ==
    {q \in fs.tree : Len(q) = Len(rel) + 1 /\ SubSeq(q, 1, Len(rel)) = rel /\ Qualifying(q)}

\* the calls of walkFn that visited a qualifying file of the directory at rel
VisitsIn(rel) ==
    {k \in DOMAIN walkLog : \E q \in QualifyingIn(rel) : walkLog[k].path = PathOf(q)}

\* the calls of walkFn that reported the directory at rel
ReportsOf(rel) ==
    {k \in DOMAIN walkLog : walkLog[k].added = <<PathOf(rel)>>}

ImportsDone(files, place, f) ==
    IF ~files[f].ok THEN <<>>
    ELSE IF f < place.f THEN files[f].imports
    ELSE IF f = place.f THEN SubSeq(files[f].imports, 1, place.i - 1)
    ELSE <<>>

RECURSIVE ImportsDoneFrom(_, _, _)
ImportsDoneFrom(files, place, f) ==
    IF f > Len(files) THEN <<>>
    ELSE ImportsDone(files, place, f) \o ImportsDoneFrom(files, place, f + 1)

IsExternal(value) == ContainsRune(importPkgPathOf(value), ".")

\* the paths of the imports outside the standard library gone through at place
ExternalDone(place) ==
    [k \in 1..Len(SelectSeq(ImportsDoneFrom(gnoFiles, place, 1), IsExternal)) |->
        importPkgPathOf(SelectSeq(ImportsDoneFrom(gnoFiles, place, 1), IsExternal)[k])]

\* the module paths they resolve to, in the order of discovery
Discovered(place) ==
    [k \in 1..Len(ExternalDone(place)) |-> Resolve(gnoMod, MV(ExternalDone(place)[k], "")).Path]

AfterLastFile == [f |-> Len(gnoFiles) + 1, i |-> 0]

\* the rule applied to importPkgPath puts a local directory in its place
ReplacedByLocal(importPkgPath) ==
    /\ Resolve(gnoMod, MV(importPkgPath, "")) # MV(importPkgPath, "")
    /\ Resolve(gnoMod, MV(importPkgPath, "")).Version = ""

\* the manifest holds rules A => B and B => A, and path is such an A
InCycle(path) ==
    \E a, b \in Elems(gnoMod.Replace) :
        /\ a.Old.Path = path
        /\ a.New.Path = b.Old.Path
        /\ b.New.Path = a.Old.Path

\* C11 as stated: with replace rules A => B and B => A in the manifest, a run
\* that resolved an import of A has returned the error of that resolution
\* (any error the run returns is counted as that error).
C11_CycleReportsResolutionError ==
    (/\ dlRet # NotReturned
     /\ \E k \in DOMAIN ExternalDone(at) : InCycle(ExternalDone(at)[k]))
    => dlRet.kind # "nil"

\* C12 as stated: at every moment of a download run, the paths handed to the
\* fetch collaborator are the resolved module paths discovered so far, each
\* once, in the order of first discovery.
C12_FetchPlanDeduplicated ==
    [k \in DOMAIN fetched |-> fetched[k].path] = AppendNew(<<>>, Discovered(at))

\* C13 as stated: no import replaced by a local directory path and no import
\* without a '.' in its path is ever handed to the fetch collaborator.
C13_LocalAndStdNeverFetched ==
    \A k \in DOMAIN fetched :
        /\ ContainsRune(fetched[k].imp, ".")
        /\ ~ReplacedByLocal(fetched[k].imp)

\* C14 as stated: once the run has returned, every import outside the standard
\* library of every file that parsed was handed to the fetch collaborator,
\* whether or not an earlier fetch failed, and a failed fetch was returned
\* as an error.
C14_SiblingsStillFetched ==
    dlRet # NotReturned =>
        /\ \A k \in DOMAIN ExternalDone(AfterLastFile) :
              \E j \in DOMAIN fetched : fetched[j].imp = ExternalDone(AfterLastFile)[k]
        /\ (\E j \in DOMAIN fetched : fetched[j].path \in fetchFails) => dlRet.kind # "nil"

\* ------------------------------------------------------------------------
\* Claims on statements
\* ------------------------------------------------------------------------
\* the tokens of a line whose tokens are single characters set apart by
\* spaces, up to its comment
RECURSIVE TokensOfLine(_, _, _)
TokensOfLine(line, k, acc) ==
    IF k > Len(line) \/ line[k] = "/" THEN acc
    ELSE TokensOfLine(line, k + 1, IF line[k] = " " THEN acc ELSE Append(acc, line[k]))

\* the tokens of the line of the document on which the statement x begins
LineTokens(x) == TokensOfLine(SplitLines(data)[x.Start.Line], 1, <<>>)

\* the first token is followed at once by '(' or by '( )' and the line ends
FirstTokenThenParen(toks) ==
    \/ Len(toks) = 2 /\ toks[2] = "("
    \/ Len(toks) = 3 /\ toks[2] = "(" /\ toks[3] = ")"

\* the line ends in '(' or in '( )' after one token at least
EndsInParen(toks) ==
    \/ Len(toks) >= 2 /\ toks[Len(toks)] = "("
    \/ Len(toks) >= 3 /\ toks[Len(toks) - 1] = "(" /\ toks[Len(toks)] = ")"

\* the tokens before the parenthesis that opens the block
BeforeParen(toks) ==
    IF toks[Len(toks)] = "(" THEN SubSeq(toks, 1, Len(toks) - 1)
    ELSE SubSeq(toks, 1, Len(toks) - 2)

TopStatements == {k \in DOMAIN parsed.f.Stmt : parsed.f.Stmt[k].type # "CommentBlock"}

SuffixOf(f, e) ==
    CASE e.part = "File" -> f.Suffix
      [] e.part = "Stmt" -> f.Stmt[e.s].Suffix
      [] e.part = "LParen" -> f.Stmt[e.s].LParen.Suffix
      [] e.part = "RParen" -> f.Stmt[e.s].RParen.Suffix
      [] e.part = "Line" -> f.Stmt[e.s].Line[e.j].Suffix

\* e may take the suffix comment c: it is not the file, begins and ends on
\* one line, and ends at or before the start of c
MayTake(f, e, c) ==
    /\ e.part # "File"
    /\ Span(f, e).start.Line = Span(f, e).end.Line
    /\ Span(f, e).end.Byte <= c.Start.Byte

\* the expression at place i of the postorder is the last that may take c
IsHome(f, post, i, c) ==
    /\ MayTake(f, post[i], c)
    /\ \A j \in (i + 1)..Len(post) : ~MayTake(f, post[j], c)

Ascending(list) == \A k \in 1..(Len(list) - 1) : list[k].Start.Byte < list[k + 1].Start.Byte

\* the suffix comments of the tree, wherever they are attached
SuffixComments(f) == SelectSeq(TreeComments(f), LAMBDA c : c.Suffix)

\* C22: in a parsed document each suffix comment is attached once: it is in
\* the suffix list of the last expression in postorder that is not the file,
\* begins and ends on one line and ends at or before the start of the
\* comment, or in the leading list of the file if there is no such
\* expression; and every suffix list is in ascending source order.
C22_SuffixAttachment ==
    ParsedOk =>
        /\ \A i \in DOMAIN orderPost(parsed.f) :
              /\ Ascending(SuffixOf(parsed.f, orderPost(parsed.f)[i]))
              /\ \A k \in DOMAIN SuffixOf(parsed.f, orderPost(parsed.f)[i]) :
                    IsHome(parsed.f, orderPost(parsed.f), i,
                           SuffixOf(parsed.f, orderPost(parsed.f)[i])[k])
        /\ \A k \in DOMAIN parsed.f.Before :
              parsed.f.Before[k].Suffix =>
                  \A i \in DOMAIN orderPost(parsed.f) :
                      ~MayTake(parsed.f, orderPost(parsed.f)[i], parsed.f.Before[k])
        /\ Len(SuffixComments(parsed.f)) = Count(parsed.lexed, LAMBDA kind : kind = "EOLCOMMENT")
        /\ \A a, b \in DOMAIN SuffixComments(parsed.f) :
              SuffixComments(parsed.f)[a].Start.Byte = SuffixComments(parsed.f)[b].Start.Byte => a = b

\* a parsed block of several lines whose closing parenthesis is followed by a
\* suffix comment, which the parenthesis holds and the block does not, with
\* another suffix comment on a line of the block
C22_Witness ==
    /\ ParsedOk
    /\ \E s \in DOMAIN parsed.f.Stmt :
          /\ parsed.f.Stmt[s].type = "LineBlock"
          /\ parsed.f.Stmt[s].Start.Line < parsed.f.Stmt[s].RParen.Pos.Line
          /\ Len(parsed.f.Stmt[s].RParen.Suffix) = 1
          /\ parsed.f.Stmt[s].Suffix = <<>>
          /\ \E j \in DOMAIN parsed.f.Stmt[s].Line : Len(parsed.f.Stmt[s].Line[j].Suffix) = 1

\* ------------------------------------------------------------------------
\* Claims on addLine
\* ------------------------------------------------------------------------
AddLineDone == ncalls > 0 /\ lastArgs.op = "addLine"

\* the directive keyword of the statement at place k, "" for a removed line
KeywordAt(x, h, k) ==
    IF x.Stmt[k].type = "LineBlock" THEN x.Stmt[k].Token[1]
    ELSE IF h[x.Stmt[k].id].Token = <<>> THEN ""
    ELSE h[x.Stmt[k].id].Token[1]

\* the place of the last statement with keyword kw, 0 when there is none
LastWithKeyword(x, h, kw) ==
    IF \E k \in DOMAIN x.Stmt : KeywordAt(x, h, k) = kw
      THEN CHOOSE k \in DOMAIN x.Stmt :
              /\ KeywordAt(x, h, k) = kw
              /\ \A m \in DOMAIN x.Stmt : KeywordAt(x, h, m) = kw => m <= k
      ELSE 0

\* the place of the statement that is hint or holds hint as one of its lines
ContainerOf(x, hint) ==
    CHOOSE k \in DOMAIN x.Stmt :
        \/ x.Stmt[k].type = hint.type /\ x.Stmt[k].id = hint.ptr
        \/ /\ x.Stmt[k].type = "LineBlock" /\ hint.type = "Line"
           /\ \E j \in DOMAIN x.Stmt[k].Line : x.Stmt[k].Line[j] = hint.ptr

\* the new line newl, made of tokens, is the last line of the block at place
\* k, the bare line at place k of x0 having been made a block if need be
AtEndOfBlock(x0, h0, x, h, k, newl, tokens) ==
    /\ Len(x.Stmt) = Len(x0.Stmt)
    /\ \A m \in DOMAIN x0.Stmt : m # k => x.Stmt[m] = x0.Stmt[m]
    /\ x.Stmt[k].type = "LineBlock"
    /\ x.Stmt[k].Token = <<tokens[1]>>
    /\ h[newl].Token = Tail(tokens)
    /\ h[newl].InBlock
    /\ IF x0.Stmt[k].type = "LineBlock"
         THEN x.Stmt[k].Line = Append(x0.Stmt[k].Line, newl)
         ELSE /\ x.Stmt[k].Line = <<x0.Stmt[k].id, newl>>
              /\ h[x0.Stmt[k].id].Token = Tail(h0[x0.Stmt[k].id].Token)
              /\ h[x0.Stmt[k].id].InBlock

\* the new line newl, made of tokens, is a top-level statement right after place k
TopLevelAfter(x0, x, h, k, newl, tokens) ==
    /\ x.Stmt = InsertAt(x0.Stmt, k + 1, TopLine(newl))
    /\ h[newl].Token = tokens
    /\ ~h[newl].InBlock

\* C23: addLine without a hint attaches the new line to the last top-level
\* statement whose keyword is the keyword of the new line (as the last line
\* of that block, a bare line being made a block of itself and the new
\* line), and appends it at the end of the file when no statement has that
\* keyword.
C23_NoHintPlacement ==
    (AddLineDone /\ lastArgs.hint = NilExpr) =>
        /\ lastArgs.line = Len(preState.heap) + 1
        /\ Len(heap) = Len(preState.heap) + 1
        /\ IF LastWithKeyword(preState.syntax, preState.heap, lastArgs.tokens[1]) = 0
             THEN TopLevelAfter(preState.syntax, syntax, heap, Len(preState.syntax.Stmt),
                                lastArgs.line, lastArgs.tokens)
             ELSE AtEndOfBlock(preState.syntax, preState.heap, syntax, heap,
                               LastWithKeyword(preState.syntax, preState.heap, lastArgs.tokens[1]),
                               lastArgs.line, lastArgs.tokens)

\* a call without hint has made a block of the second of two replace
\* statements, which a require statement separated
C23_Witness ==
    /\ AddLineDone /\ lastArgs.hint = NilExpr
    /\ lastArgs.tokens[1] = "replace"
    /\ Cardinality({k \in DOMAIN preState.syntax.Stmt :
                       KeywordAt(preState.syntax, preState.heap, k) = "replace"}) = 2
    /\ preState.syntax.Stmt[Len(preState.syntax.Stmt)].type = "Line"
    /\ syntax.Stmt[Len(syntax.Stmt)].type = "LineBlock"
    /\ Last(syntax.Stmt[Len(syntax.Stmt)].Line) = lastArgs.line

\* C24: addLine with a hint that is, or lies in, a statement with the
\* keyword of the new line adds the new line at the end of the block that
\* holds the hint (a bare hint line being made a block first); when the
\* keyword differs the new line becomes a top-level statement right after
\* the statement that holds the hint.
C24_HintPlacement ==
    (AddLineDone /\ lastArgs.hint # NilExpr) =>
        /\ lastArgs.line = Len(preState.heap) + 1
        /\ Len(heap) = Len(preState.heap) + 1
        /\ IF KeywordAt(preState.syntax, preState.heap,
                        ContainerOf(preState.syntax, lastArgs.hint)) = lastArgs.tokens[1]
             THEN AtEndOfBlock(preState.syntax, preState.heap, syntax, heap,
                               ContainerOf(preState.syntax, lastArgs.hint),
                               lastArgs.line, lastArgs.tokens)
             ELSE TopLevelAfter(preState.syntax, syntax, heap,
                                ContainerOf(preState.syntax, lastArgs.hint),
                                lastArgs.line, lastArgs.tokens)

\* the lines of the tree in source order, each with its keyword and arguments
Contents(x, h) ==
    Flatten([k \in DOMAIN x.Stmt |->
        IF x.Stmt[k].type = "Line"
          THEN <<[id |-> x.Stmt[k].id, content |-> h[x.Stmt[k].id].Token]>>
          ELSE [j \in DOMAIN x.Stmt[k].Line |->
                  [id |-> x.Stmt[k].Line[j],
                   content |-> x.Stmt[k].Token \o h[x.Stmt[k].Line[j]].Token]]])

\* the statement at place k of x0 is st: the same statement, or the block
\* made of the bare line that was there
SameStatement(x0, k, st) ==
    \/ st.type = x0.Stmt[k].type /\ st.id = x0.Stmt[k].id
    \/ /\ x0.Stmt[k].type = "Line" /\ st.type = "LineBlock"
       /\ st.Line[1] = x0.Stmt[k].id

\* the statements of x but for the top-level line newl
OldStatements(x, newl) == SelectSeq(x.Stmt, LAMBDA st : ~(st.type = "Line" /\ st.id = newl))

\* C30: an addLine call adds exactly one new line, made of the tokens given,
\* and returns it; the lines that were there keep their order, their
\* keyword and their arguments, and the statements keep their order.
C30_AddLineAdditive ==
    AddLineDone =>
        /\ lastArgs.line = Len(preState.heap) + 1
        /\ Len(heap) = Len(preState.heap) + 1
        /\ Len(Contents(syntax, heap)) = Len(Contents(preState.syntax, preState.heap)) + 1
        /\ SelectSeq(Contents(syntax, heap), LAMBDA c : c.id # lastArgs.line)
             = Contents(preState.syntax, preState.heap)
        /\ \E k \in DOMAIN Contents(syntax, heap) :
              Contents(syntax, heap)[k] = [id |-> lastArgs.line, content |-> lastArgs.tokens]
        /\ Len(OldStatements(syntax, lastArgs.line)) = Len(preState.syntax.Stmt)
        /\ \A k \in DOMAIN preState.syntax.Stmt :
              SameStatement(preState.syntax, k, OldStatements(syntax, lastArgs.line)[k])

\* a call has made a block of a bare line that the hint named, in a tree
\* that holds a removed line
C30_Witness ==
    /\ AddLineDone
    /\ lastArgs.hint.type = "Line"
    /\ heap[lastArgs.hint.ptr].InBlock
    /\ ~preState.heap[lastArgs.hint.ptr].InBlock
    /\ \E l \in DOMAIN preState.heap : preState.heap[l].Token = <<>>
    /\ Len(syntax.Stmt) = Len(preState.syntax.Stmt)

\* ------------------------------------------------------------------------
\* Claims on the placement of a new replace and on removal
\* ------------------------------------------------------------------------
\* the call appended an entry, and no entry held the old path before it
NewReplaceWithoutHint ==
    /\ CallDone
    /\ Len(replace) = Len(preState.replace) + 1
    /\ \A i \in DOMAIN preState.replace : preState.replace[i].Old.Path # lastArgs.oldPath

\* C25: when addReplace finds no entry to update and no entry with the same
\* old path, the new replace line goes to the last replace block or replace
\* line of the file, and to the end of the file as a new top-level line only
\* when the file has no replace statement.
C25_NewReplacePlacement ==
    NewReplaceWithoutHint =>
        IF LastWithKeyword(preState.syntax, preState.heap, "replace") = 0
          THEN TopLevelAfter(preState.syntax, syntax, heap, Len(preState.syntax.Stmt),
                             Last(replace).Syntax,
                             replaceTokens(lastArgs.oldPath, lastArgs.oldVers,
                                           lastArgs.newPath, lastArgs.newVers))
          ELSE AtEndOfBlock(preState.syntax, preState.heap, syntax, heap,
                            LastWithKeyword(preState.syntax, preState.heap, "replace"),
                            Last(replace).Syntax,
                            replaceTokens(lastArgs.oldPath, lastArgs.oldVers,
                                          lastArgs.newPath, lastArgs.newVers))

\* the entries the last call removed
RemovedEntries ==
    {i \in DOMAIN preState.replace : IsLive(preState.replace[i]) /\ replace[i] = ZeroReplace}

\* the lines of the entries the last call was about
TouchedLines ==
    {preState.replace[i].Syntax : i \in LiveMatching(preState.replace, lastArgs.oldPath, lastArgs.oldVers)}

\* C26: the line of an entry that addReplace removes has its tokens and its
\* suffix comments emptied and nothing else changed: it keeps its place in
\* its parent, no statement or line sequence changes, its before-comments
\* stay, and the lines the call is not about are as they were.
C26_RemovalFrame ==
    (CallDone /\ RemovedEntries # {}) =>
        /\ syntax = preState.syntax
        /\ Len(heap) = Len(preState.heap)
        /\ \A i \in RemovedEntries :
              heap[preState.replace[i].Syntax] =
                  [preState.heap[preState.replace[i].Syntax] EXCEPT !.Token = <<>>, !.Suffix = <<>>]
        /\ \A l \in DOMAIN heap : l \notin TouchedLines => heap[l] = preState.heap[l]

\* a call has removed an entry whose line had comments before it and after it
C26_Witness ==
    /\ CallDone
    /\ \E i \in RemovedEntries :
          /\ preState.heap[preState.replace[i].Syntax].Suffix # <<>>
          /\ heap[preState.replace[i].Syntax].Before # <<>>
          /\ heap[preState.replace[i].Syntax].Token = <<>>

\* ------------------------------------------------------------------------
\* Claims on parseReplace
\* ------------------------------------------------------------------------
Reading(old, new, hasVersion) == [old |-> old, new |-> new, hasVersion |-> hasVersion]

\* the ways of reading args as  old [oldVersion] => new [newVersion]
Readings(args) ==
    (IF Len(args) = 3 /\ args[2] = "=>" THEN {Reading(args[1], args[3], FALSE)} ELSE {})
    \cup (IF Len(args) = 4 /\ args[2] = "=>" THEN {Reading(args[1], args[3], TRUE)} ELSE {})
    \cup (IF Len(args) = 4 /\ args[3] = "=>" THEN {Reading(args[1], args[4], FALSE)} ELSE {})
    \cup (IF Len(args) = 5 /\ args[3] = "=>" THEN {Reading(args[1], args[4], TRUE)} ELSE {})

\* new is a directory path exactly when it comes without version
RightKindOfPath(r) == IsDirectoryPath(r.new) <=> ~r.hasVersion

\* C27: parseReplace returns an entry only for an argument list of the form
\* old [oldVersion] => new [newVersion] in which new is a directory path if
\* newVersion is left out and is not one if newVersion is there; in every
\* other case it returns an error and no entry; and the entry returned
\* references the line it was decoded from.
C27_ReplaceDecoding ==
    replRet.done =>
        /\ replRet.entry.nil <=> replRet.err # ""
        /\ ~replRet.entry.nil =>
              /\ replRet.entry.Syntax = replRet.line
              /\ \E r \in Readings(replArgs) :
                    /\ RightKindOfPath(r)
                    /\ replRet.entry.Old.Path = r.old
                    /\ replRet.entry.New.Path = r.new
                    /\ (replRet.entry.New.Version # "") <=> r.hasVersion
        /\ (\A r \in Readings(replArgs) : ~RightKindOfPath(r)) =>
              (replRet.entry.nil /\ replRet.err # "")

\* an entry has been decoded from a list that gives both versions
C27_Witness ==
    /\ replRet.done
    /\ ~replRet.entry.nil
    /\ Len(replArgs) = 5
    /\ replRet.entry.Old.Version # ""
    /\ replRet.entry.New.Version # ""
    /\ replRet.entry.Syntax = 2

\* ------------------------------------------------------------------------
\* Claims on the lexer driven call by call
\* ------------------------------------------------------------------------
\* the bytes consumed so far
Consumed(in) == SubSeq(in.complete, 1, in.off)

\* the place of the last newline of bytes, 0 when there is none
LastNewline(bytes) ==
    IF \E k \in DOMAIN bytes : bytes[k] = "\n"
      THEN CHOOSE k \in DOMAIN bytes : bytes[k] = "\n" /\ \A m \in DOMAIN bytes : bytes[m] = "\n" => m <= k
      ELSE 0

\* the number of runes that bytes[k..] encodes
RECURSIVE RuneCount(_, _)
RuneCount(bytes, k) ==
    IF k > Len(bytes) THEN 0
    ELSE IF bytes[k] = LeadByte /\ k < Len(bytes) /\ bytes[k + 1] = ContByte
      THEN 1 + RuneCount(bytes, k + 2)
    ELSE 1 + RuneCount(bytes, k + 1)

\* C28: in every state of the lexer reached without error the byte offset
\* of the position is the number of bytes consumed, its line is 1 plus the
\* number of newlines consumed, and its column is 1 plus the number of runes
\* consumed since the last newline.
C28_PositionInvariant ==
    ~lexer.panicking =>
        /\ lexer.pos.Byte = Len(lexer.complete) - Len(SubSeq(lexer.complete, lexer.off + 1, Len(lexer.complete)))
        /\ lexer.pos.Line = 1 + Len(SelectSeq(Consumed(lexer), LAMBDA b : b = "\n"))
        /\ lexer.pos.LineRune = 1 + RuneCount(Consumed(lexer), LastNewline(Consumed(lexer)) + 1)

\* the lexer has consumed a newline and then a rune of two bytes
C28_Witness ==
    /\ ~lexer.panicking
    /\ lexer.pos.Line = 2
    /\ lexer.pos.LineRune = 2
    /\ lexer.pos.Byte = 3

\* C29: a readToken call that returns has consumed at least one byte, or
\* has found the input exhausted and yielded the end-of-file token; once
\* end-of-file has been yielded every later token is end-of-file; and parse
\* returns after at most one token for each byte and two end-of-file tokens
\* (the one it peeks at and the one lex reads as it takes it).
C29_LexerProgress ==
    /\ (lexOp = "readToken" /\ ~lexer.panicking) =>
          /\ \/ lexer.off > lexPrev.off
             \/ lexPrev.off = Len(data) /\ lexer.token.kind = "EOF"
          /\ lexPrev.kind = "EOF" => lexer.token.kind = "EOF"
    /\ parsed.done =>
          /\ Len(SelectSeq(parsed.lexed, LAMBDA kind : kind # "EOF")) <= Len(data)
          /\ Len(SelectSeq(parsed.lexed, LAMBDA kind : kind = "EOF")) <= 2

\* readToken has yielded end-of-file twice, after a token that took bytes
C29_Witness ==
    /\ lexOp = "readToken"
    /\ ~lexer.panicking
    /\ EOFTokens(lexer) = 2
    /\ Len(lexer.lexed) >= 3
    /\ lexPrev.off = Len(data)
    /\ lexPrev.kind = "EOF"
====
